---- MODULE Spec2Model ----
(***************************************************************************)
(* A model of voxel-rsmcdoc: the import resolver (src/src/resolver.rs),    *)
(* the registry manager (src/src/registry.rs) and the MCDOC validator      *)
(* (src/src/validator.rs, src/src/types.rs, src/src/lib.rs).               *)
(*                                                                         *)
(* Strings.  A Rust string is modelled as a sequence of lexical chunks:    *)
(* the separator characters the code inspects (":", "/", "#", ".", "[",    *)
(* "]") are chunks of their own, and every maximal run of other            *)
(* characters is one atom (a TLA+ string).  "minecraft:recipe/x" is        *)
(* <<"minecraft", ":", "recipe", "/", "x">>, the empty string is <<>>.     *)
(* split, join, strip_prefix, starts_with, contains and format! are        *)
(* computed on this representation.                                        *)
(*                                                                         *)
(* JSON.  A serde_json::Value is a record tagged by t: "null", "bool",     *)
(* "num" (i64 says whether the number is stored as an integer), "str",     *)
(* "arr" (items) and "obj" (members: the <<key, value>> pairs in the       *)
(* map's iteration order, keys distinct).                                  *)
(*                                                                         *)
(* Hash maps.  The iteration order of an FxHashMap is not specified: an    *)
(* operation that iterates one takes the order as an input chosen by the   *)
(* action that calls it.                                                   *)
(***************************************************************************)
EXTENDS Integers, Sequences, FiniteSets, TLC

VARIABLES
  modules,           \* ImportResolver.modules: module path -> McDocFile
  resolved,          \* ImportResolver.resolved: module path -> ResolvedModule
  resolution_order,  \* ImportResolver.resolution_order
  registries,        \* RegistryManager.registries: name -> Registry
  current_version,   \* McDocValidator.current_version: Option<MinecraftVersion>
  lexer,             \* Lexer: input and current position
  parser,            \* Parser: tokens and current index
  outcome,           \* what the last resolve_all() returned
  call,              \* the operation called last and its arguments
  result,            \* what that call returned
  pc,                \* "ready" before the call, "done" after it
  steps              \* the number of operations called so far

vars ==
  <<modules, resolved, resolution_order, registries, current_version, lexer,
    parser, outcome, call, result, pc, steps>>

(***************************************************************************)
(* Option<T>                                                               *)
(***************************************************************************)
None == [some |-> FALSE]
Some(v) == [some |-> TRUE, v |-> v]

(***************************************************************************)
(* Strings as chunk sequences                                              *)
(***************************************************************************)
\* The string made of the single atom a.
S(a) == <<a>>

\* format!/concatenation.
Cat(s1, s2) == s1 \o s2

\* str::contains(char) for a separator character.
ContainsChar(s, c) == \E i \in 1..Len(s) : s[i] = c

\* str::starts_with(char) for a separator character.
StartsWithChar(s, c) == Len(s) > 0 /\ s[1] = c

\* str::strip_prefix(char): Some(rest) or None.
StripPrefixChar(s, c) == IF StartsWithChar(s, c) THEN Some(Tail(s)) ELSE None

\* str::split(char).collect(): never empty; an empty string gives [""].
RECURSIVE SplitFrom(_, _, _, _)
SplitFrom(s, c, i, cur) ==
  IF i > Len(s) THEN <<cur>>
  ELSE IF s[i] = c THEN <<cur>> \o SplitFrom(s, c, i + 1, <<>>)
  ELSE SplitFrom(s, c, i + 1, Append(cur, s[i]))

Split(s, c) == SplitFrom(s, c, 1, <<>>)

\* [String]::join(sep).
RECURSIVE Join(_, _)
Join(parts, sep) ==
  IF Len(parts) = 0 THEN <<>>
  ELSE IF Len(parts) = 1 THEN parts[1]
  ELSE parts[1] \o <<sep>> \o Join(Tail(parts), sep)

\* Atoms holding a character that is neither alphanumeric nor '_'.
NonWordAtoms == {"bad-name", "hello world"}

\* The separator chunks.
Separators == {":", "/", "#", ".", "[", "]"}

\* usize -> decimal string, for the indices the model reaches.
DecimalAtoms == <<"0", "1", "2", "3", "4", "5">>
UsizeToString(n) == S(DecimalAtoms[n + 1])

(***************************************************************************)
(* serde_json::Value                                                       *)
(***************************************************************************)
JNull == [t |-> "null"]
JBool(b) == [t |-> "bool", b |-> b]
JInt(n) == [t |-> "num", n |-> n, i64 |-> TRUE]
JFloat(n) == [t |-> "num", n |-> n, i64 |-> FALSE]
JStr(s) == [t |-> "str", s |-> s]
JArr(items) == [t |-> "arr", items |-> items]
JObj(members) == [t |-> "obj", members |-> members]

is_string(json) == json.t = "str"
is_i64(json) == json.t = "num" /\ json.i64
is_f64(json) == json.t = "num" /\ ~json.i64
is_boolean(json) == json.t = "bool"
is_null(json) == json.t = "null"
is_array(json) == json.t = "arr"
is_object(json) == json.t = "obj"

\* Map::get(key): Some(value) or None.
ObjGet(json, key) ==
  IF \E i \in 1..Len(json.members) : json.members[i][1] = key
  THEN Some(json.members[CHOOSE i \in 1..Len(json.members) : json.members[i][1] = key][2])
  ELSE None

(***************************************************************************)
(* parser::TypeExpression, as the validator reads it                       *)
(***************************************************************************)
Simple(name) == [kind |-> "Simple", name |-> name]
Array(elem, constraints) ==
  [kind |-> "Array", element_type |-> elem, constraints |-> constraints]
Union(variants) == [kind |-> "Union", variants |-> variants]
Struct(fields) == [kind |-> "Struct", fields |-> fields]
Generic(name, args) == [kind |-> "Generic", name |-> name, type_args |-> args]
Reference(import_path) == [kind |-> "Reference", path |-> import_path]
Spread(base_path, dynamic_key) ==
  [kind |-> "Spread", base_path |-> base_path, dynamic_key |-> dynamic_key]

ArrayConstraints(min, max) == [min |-> min, max |-> max]
FieldDeclaration(name, type, optional, annotations) ==
  [name |-> name, field_type |-> type, optional |-> optional,
   annotations |-> annotations]
Annotation(name, data) == [name |-> name, data |-> data]
AnnotationSimple(value) == [kind |-> "Simple", value |-> value]
AnnotationComplex(params) == [kind |-> "Complex", params |-> params]
AnnotationEmpty == [kind |-> "Empty"]
Absolute(segments) == [abs |-> TRUE, segments |-> segments]
Relative(segments) == [abs |-> FALSE, segments |-> segments]
DynField(name) == [special |-> FALSE, name |-> name]
DynSpecialKey(name) == [special |-> TRUE, name |-> name]

\* Declarations of a file: type aliases and dispatches.
TypeDeclaration(name, type) == [kind |-> "Type", name |-> name, type_expr |-> type]
Specific(name) == [specific |-> TRUE, name |-> name]
Unknown == [specific |-> FALSE]
DispatchDeclaration(registry, targets, type) ==
  [kind |-> "Dispatch", registry |-> registry, targets |-> targets,
   target_type |-> type]
McDocFile(imports, declarations) ==
  [imports |-> imports, declarations |-> declarations]
ResolvedModule(path, file, dependencies) ==
  [path |-> path, file |-> file, dependencies |-> dependencies]

(***************************************************************************)
(* ImportResolver: the queries the validator makes                         *)
(***************************************************************************)
\* The index of the first TRUE of a sequence of booleans, or 0: where a
\* `for` loop that returns at its first match stops.
FirstTrue(flags) ==
  IF \E i \in 1..Len(flags) : flags[i]
  THEN CHOOSE i \in 1..Len(flags) : flags[i] /\ \A j \in 1..(i - 1) : ~flags[j]
  ELSE 0

\* The dispatch declarations of the resolved modules in the order the loops
\* `for resolved_module in self.resolved.values()` / `for declaration in
\* &resolved_module.file.declarations` meet them; ord is the order of values().
RECURSIVE DispatchesInOrder(_)
DispatchesInOrder(ord) ==
  IF Len(ord) = 0 THEN <<>>
  ELSE SelectSeq(resolved[ord[1]].file.declarations,
                 LAMBDA d : d.kind = "Dispatch")
       \o DispatchesInOrder(Tail(ord))

\* dispatch_matches: a "resource" dispatch matches through a target equal to
\* the resource type or through %unknown; any other dispatch matches when its
\* registry is the resource type.
dispatch_matches(dispatch, namespace, resource_type) ==
  IF dispatch.registry = S("resource")
  THEN \E i \in 1..Len(dispatch.targets) :
         \/ ~dispatch.targets[i].specific
         \/ dispatch.targets[i].specific /\ dispatch.targets[i].name = resource_type
  ELSE dispatch.registry = resource_type

\* find_dispatch_target: the first dispatch met that matches.
find_dispatch_target(namespace, resource_type, ord) ==
  LET ds == DispatchesInOrder(ord)
      i == FirstTrue([k \in 1..Len(ds) |->
                        dispatch_matches(ds[k], namespace, resource_type)])
  IN IF i = 0 THEN None ELSE Some(ds[i])

\* resolve_type_reference: the module is the path's segments joined by "/",
\* the type is the path's last segment; the first declaration of that name.
resolve_type_reference(import_path) ==
  LET module_path == Join(import_path.segments, "/")
      segs == import_path.segments
  IN IF Len(segs) = 0 \/ module_path \notin DOMAIN resolved THEN None
     ELSE LET decls == resolved[module_path].file.declarations
              i == FirstTrue([k \in 1..Len(decls) |->
                     decls[k].kind = "Type" /\ decls[k].name = segs[Len(segs)]])
          IN IF i = 0 THEN None ELSE Some(decls[i].type_expr)

\* Whether a target list has an entry that makes resolve_spread_target return.
SpreadTargetHit(targets, dynamic_value) ==
  \E i \in 1..Len(targets) :
    \/ targets[i].specific /\ targets[i].name = dynamic_value
    \/ ~targets[i].specific /\ dynamic_value = <<>>

\* resolve_spread_target: base_path is "ns:registry"; the first dispatch of
\* that registry listing the dynamic value, %unknown only for an empty value.
resolve_spread_target(base_path, dynamic_value, ord) ==
  LET path_parts == Split(base_path, ":")
  IN IF Len(path_parts) # 2 THEN None
     ELSE LET registry_type == path_parts[2]
              ds == DispatchesInOrder(ord)
              i == FirstTrue([k \in 1..Len(ds) |->
                     ds[k].registry = registry_type
                     /\ SpreadTargetHit(ds[k].targets, dynamic_value)])
          IN IF i = 0 THEN None ELSE Some(ds[i].target_type)

(***************************************************************************)
(* McDocValidator: the type-directed walk.  A Result<(), Vec<_>> is the    *)
(* sequence of its errors, empty for Ok(()).  An error is the record of    *)
(* what its message is formatted from.                                     *)
(***************************************************************************)
json_type_name(json) ==
  CASE json.t = "null" -> "null"
    [] json.t = "bool" -> "boolean"
    [] json.t = "num" -> "number"
    [] json.t = "str" -> "string"
    [] json.t = "arr" -> "array"
    [] json.t = "obj" -> "object"

\* path.join(".")
PathString(path) == Join(path, ".")

NoVariantError(path) == [kind |-> "NoVariant", path |-> PathString(path)]
ExpectedTypeError(type_name, json, path) ==
  [kind |-> "ExpectedType", expected |-> type_name,
   found |-> json_type_name(json), path |-> PathString(path)]
ExpectedArrayError(json, path) ==
  [kind |-> "ExpectedArray", found |-> json_type_name(json),
   path |-> PathString(path)]
ArrayTooShortError(min, len, path) ==
  [kind |-> "ArrayTooShort", limit |-> min, len |-> len, path |-> PathString(path)]
ArrayTooLongError(max, len, path) ==
  [kind |-> "ArrayTooLong", limit |-> max, len |-> len, path |-> PathString(path)]
ExpectedObjectError(json, path) ==
  [kind |-> "ExpectedObject", found |-> json_type_name(json),
   path |-> PathString(path)]
MissingFieldError(name, path) ==
  [kind |-> "MissingField", field |-> name, path |-> PathString(path)]
UnresolvedReferenceError(import_path) ==
  [kind |-> "UnresolvedReference", reference |-> import_path]
SpreadTargetError(base_path, dynamic_value) ==
  [kind |-> "SpreadTarget", base_path |-> base_path, value |-> dynamic_value]
StaticSpreadTargetError(base_path) ==
  [kind |-> "StaticSpreadTarget", base_path |-> base_path]
DynamicFieldNotStringError(name) == [kind |-> "DynamicFieldNotString", field |-> name]
DynamicFieldNotFoundError(name) == [kind |-> "DynamicFieldNotFound", field |-> name]
DynamicFromNonObjectError == [kind |-> "DynamicFromNonObject"]
NoDispatchError(resource_type) == [kind |-> "NoDispatch", resource_type |-> resource_type]

\* type_name.chars().all(|c| c.is_alphanumeric() || c == '_')
IsWordString(s) ==
  \A i \in 1..Len(s) : s[i] \notin Separators /\ s[i] \notin NonWordAtoms

\* extract_dynamic_value: Ok(string) as Some(string) in v, Err(errors) in e.
extract_dynamic_value(json, dynamic_ref) ==
  IF dynamic_ref.special THEN [v |-> Some(dynamic_ref.name), e |-> <<>>]
  ELSE IF ~is_object(json)
       THEN [v |-> None, e |-> <<DynamicFromNonObjectError>>]
       ELSE LET f == ObjGet(json, dynamic_ref.name)
            IN IF ~f.some
               THEN [v |-> None, e |-> <<DynamicFieldNotFoundError(dynamic_ref.name)>>]
               ELSE IF ~is_string(f.v)
                    THEN [v |-> None,
                          e |-> <<DynamicFieldNotStringError(dynamic_ref.name)>>]
                    ELSE [v |-> Some(f.v.s), e |-> <<>>]

RECURSIVE validate_json_against_structure(_, _, _, _)
RECURSIVE validate_simple_type(_, _, _, _)
RECURSIVE validate_array_type(_, _, _, _, _)
RECURSIVE validate_struct_type(_, _, _, _)
RECURSIVE validate_spread_expression(_, _, _, _)
RECURSIVE validate_union(_, _, _, _)
RECURSIVE UnionLoop(_, _, _, _, _)
RECURSIVE ArrayLoop(_, _, _, _, _)
RECURSIVE StructLoop(_, _, _, _, _)

\* validate_simple_type
validate_simple_type(json, type_name, path, ord) ==
  LET mismatch == <<ExpectedTypeError(type_name, json, path)>>
      check(is_valid) == IF is_valid THEN <<>> ELSE mismatch
  IN CASE type_name = S("string") -> check(is_string(json))
       [] type_name \in {S("int"), S("integer")} -> check(is_i64(json))
       [] type_name \in {S("float"), S("number")} ->
            check(is_f64(json) \/ is_i64(json))
       [] type_name \in {S("boolean"), S("bool")} -> check(is_boolean(json))
       [] type_name = S("null") -> check(is_null(json))
       [] OTHER ->
            LET r == resolve_type_reference(Absolute(<<type_name>>))
            IN IF r.some
               THEN validate_json_against_structure(json, r.v, path, ord)
               ELSE check(IsWordString(type_name))

\* The loop over the variants of a union: the first variant that validates
\* returns Ok; when none does, one error replaces the collected ones.
UnionLoop(json, variants, i, path, ord) ==
  IF i > Len(variants) THEN <<NoVariantError(path)>>
  ELSE IF validate_json_against_structure(json, variants[i], path, ord) = <<>>
       THEN <<>>
       ELSE UnionLoop(json, variants, i + 1, path, ord)

\* validate_union returning the variants' errors when every variant fails.
RECURSIVE UnionLoop_AllErrors(_, _, _, _, _)
UnionLoop_AllErrors(json, variants, i, path, ord) ==
  IF i > Len(variants) THEN <<>>
  ELSE validate_json_against_structure(json, variants[i], path, ord)
       \o UnionLoop_AllErrors(json, variants, i + 1, path, ord)

validate_union_AllErrors(json, variants, path, ord) ==
  IF \E i \in 1..Len(variants) :
       validate_json_against_structure(json, variants[i], path, ord) = <<>>
  THEN <<>>
  ELSE UnionLoop_AllErrors(json, variants, 1, path, ord)

\* A variant of validate_union that tries the first variant only.
validate_union_FirstOnly(json, variants, path, ord) ==
  IF /\ Len(variants) > 0
     /\ validate_json_against_structure(json, variants[1], path, ord) = <<>>
  THEN <<>>
  ELSE <<NoVariantError(path)>>

\* The TypeExpression::Union arm of validate_json_against_structure.
validate_union(json, variants, path, ord) ==
  UnionLoop(json, variants, 1, path, ord)

\* The loop over the elements of an array, from index i (0-based) on.
ArrayLoop(items, element_type, i, path, ord) ==
  IF i >= Len(items) THEN <<>>
  ELSE LET element_path ==
             Append(path, <<"[">> \o UsizeToString(i) \o <<"]">>)
       IN validate_json_against_structure(items[i + 1], element_type,
                                          element_path, ord)
          \o ArrayLoop(items, element_type, i + 1, path, ord)

\* validate_array_type comparing the length with <= and >=.
validate_array_type_OffByOne(json, element_type, constraints, path, ord) ==
  IF ~is_array(json) THEN <<ExpectedArrayError(json, path)>>
  ELSE LET array_len == Len(json.items)
       IN IF constraints.some /\ constraints.v.min.some
             /\ array_len <= constraints.v.min.v
          THEN <<ArrayTooShortError(constraints.v.min.v, array_len, path)>>
          ELSE IF constraints.some /\ constraints.v.max.some
                  /\ array_len >= constraints.v.max.v
               THEN <<ArrayTooLongError(constraints.v.max.v, array_len, path)>>
               ELSE ArrayLoop(json.items, element_type, 0, path, ord)

\* validate_array_type
validate_array_type(json, element_type, constraints, path, ord) ==
  IF ~is_array(json) THEN <<ExpectedArrayError(json, path)>>
  ELSE LET array_len == Len(json.items)
       IN IF constraints.some /\ constraints.v.min.some
             /\ array_len < constraints.v.min.v
          THEN <<ArrayTooShortError(constraints.v.min.v, array_len, path)>>
          ELSE IF constraints.some /\ constraints.v.max.some
                  /\ array_len > constraints.v.max.v
               THEN <<ArrayTooLongError(constraints.v.max.v, array_len, path)>>
               ELSE ArrayLoop(json.items, element_type, 0, path, ord)

\* StructLoop returning at the first field that fails.
RECURSIVE StructLoop_StopAtFirst(_, _, _, _, _)
StructLoop_StopAtFirst(json, fields, i, path, ord) ==
  IF i > Len(fields) THEN <<>>
  ELSE LET field == fields[i]
           field_value == ObjGet(json, field.name)
           field_path == Append(path, field.name)
           here ==
             IF field_value.some
             THEN validate_json_against_structure(field_value.v,
                    field.field_type, field_path, ord)
             ELSE IF ~field.optional
                  THEN <<MissingFieldError(field.name, path)>>
                  ELSE <<>>
       IN IF here # <<>> THEN here
          ELSE StructLoop_StopAtFirst(json, fields, i + 1, path, ord)

\* The loop over the declared fields of a struct, from field i on.
StructLoop(json, fields, i, path, ord) ==
  IF i > Len(fields) THEN <<>>
  ELSE LET field == fields[i]
           field_value == ObjGet(json, field.name)
           field_path == Append(path, field.name)
           here ==
             IF field_value.some
             THEN validate_json_against_structure(field_value.v,
                    field.field_type, field_path, ord)
             ELSE IF ~field.optional
                  THEN <<MissingFieldError(field.name, path)>>
                  ELSE <<>>
       IN here \o StructLoop(json, fields, i + 1, path, ord)

\* validate_struct_type
validate_struct_type(json, fields, path, ord) ==
  IF ~is_object(json) THEN <<ExpectedObjectError(json, path)>>
  ELSE StructLoop(json, fields, 1, path, ord)

\* validate_spread_expression
validate_spread_expression(json, spread, path, ord) ==
  IF spread.dynamic_key.some
  THEN LET dv == extract_dynamic_value(json, spread.dynamic_key.v)
       IN IF ~dv.v.some THEN dv.e
          ELSE LET target == resolve_spread_target(spread.base_path, dv.v.v, ord)
               IN IF ~target.some
                  THEN <<SpreadTargetError(spread.base_path, dv.v.v)>>
                  ELSE validate_json_against_structure(json, target.v, path, ord)
  ELSE LET target == resolve_spread_target(spread.base_path, <<>>, ord)
       IN IF ~target.some
          THEN <<StaticSpreadTargetError(spread.base_path)>>
          ELSE validate_json_against_structure(json, target.v, path, ord)

\* validate_json_against_structure
validate_json_against_structure(json, type_expr, path, ord) ==
  CASE type_expr.kind = "Simple" ->
         validate_simple_type(json, type_expr.name, path, ord)
    [] type_expr.kind = "Array" ->
         validate_array_type(json, type_expr.element_type,
                             type_expr.constraints, path, ord)
    [] type_expr.kind = "Union" ->
         validate_union(json, type_expr.variants, path, ord)
    [] type_expr.kind = "Struct" ->
         validate_struct_type(json, type_expr.fields, path, ord)
    [] type_expr.kind = "Generic" ->
         validate_simple_type(json, type_expr.name, path, ord)
    [] type_expr.kind = "Reference" ->
         LET r == resolve_type_reference(type_expr.path)
         IN IF r.some
            THEN validate_json_against_structure(json, r.v, path, ord)
            ELSE <<UnresolvedReferenceError(type_expr.path)>>
    [] type_expr.kind = "Spread" ->
         validate_spread_expression(json, type_expr, path, ord)

(***************************************************************************)
(* Bounds and sample inputs                                                *)
(***************************************************************************)
MaxArrayLen == 2    \* JSON arrays of the inputs hold at most this many items
MaxVariants == 2    \* unions of the inputs hold at most this many variants
MaxFields == 2      \* structs of the inputs declare at most this many fields

\* The sequences over S of length at most n.
SeqsUpTo(set, n) == UNION {[1..k -> set] : k \in 0..n}

\* The orders in which a hash map with the key set `keys` may be iterated.
Orders(keys) ==
  {o \in [1..Cardinality(keys) -> keys] :
     \A i, j \in 1..Cardinality(keys) : i # j => o[i] # o[j]}

\* An outcome for "resolve_all() was not called yet".
NoOutcome == [kind |-> "none"]

\* A resolver state for the validator's inputs: module "Alias" declares
\* `type Alias = (string | int)` and a dispatch of recipe_serializer[shaped];
\* module "recipes" declares dispatches of recipe_serializer[shaped] and
\* recipe_serializer[%unknown].  Neither imports anything.
AliasFile ==
  McDocFile(<<>>,
    <<TypeDeclaration(S("Alias"), Union(<<Simple(S("string")), Simple(S("int"))>>)),
      DispatchDeclaration(S("recipe_serializer"), <<Specific(S("shaped"))>>,
        Struct(<<FieldDeclaration(S("a"), Simple(S("string")), TRUE, <<>>)>>))>>)
RecipesFile ==
  McDocFile(<<>>,
    <<DispatchDeclaration(S("recipe_serializer"), <<Specific(S("shaped"))>>,
        Struct(<<FieldDeclaration(S("a"), Simple(S("int")), FALSE, <<>>)>>)),
      DispatchDeclaration(S("recipe_serializer"), <<Unknown>>,
        Simple(S("boolean")))>>)
SampleModules == (S("Alias") :> AliasFile) @@ (S("recipes") :> RecipesFile)
SampleResolved ==
  [p \in DOMAIN SampleModules |-> ResolvedModule(p, SampleModules[p], <<>>)]

\* JSON documents.
JLeaves ==
  {JNull, JBool(TRUE), JInt(1), JFloat(1), JStr(S("x")), JStr(S("shaped"))}
JItems == {JNull, JInt(1), JStr(S("shaped"))}
JFieldValues == {JInt(1), JStr(S("shaped"))}
JKeys == {S("a"), S("type")}
JArrays == {JArr(items) : items \in SeqsUpTo(JItems, MaxArrayLen)}
JObjects ==
  {JObj(m) : m \in {mm \in SeqsUpTo(JKeys \X JFieldValues, MaxFields) :
                      \A i, j \in 1..Len(mm) : i # j => mm[i][1] # mm[j][1]}}
JInner ==
  {JArr(<<>>), JArr(<<JStr(S("x")), JInt(1)>>),
   JObj(<<>>), JObj(<< <<S("a"), JInt(1)>> >>)}
JNested ==
  {JArr(items) : items \in SeqsUpTo(JInner, MaxArrayLen)}
  \cup {JObj(<< <<S("a"), v>> >>) : v \in JInner}
JsonSamples == JLeaves \cup JArrays \cup JObjects \cup JNested

\* Type expressions.
DynamicSpread ==
  Spread(<<"minecraft", ":", "recipe_serializer">>, Some(DynField(S("type"))))
StaticSpread == Spread(<<"minecraft", ":", "recipe_serializer">>, None)
TLeaves ==
  {Simple(S("string")), Simple(S("int")), Simple(S("float")),
   Simple(S("boolean")), Simple(S("null")),
   Simple(S("Alias")), Simple(S("External")), Simple(S("bad-name")),
   Generic(S("string"), <<Simple(S("int"))>>),
   Reference(Absolute(<<S("Alias")>>)), Reference(Absolute(<<S("Missing")>>)),
   DynamicSpread, StaticSpread}
TBranches ==
  {Simple(S("string")), Simple(S("int")), Simple(S("bad-name")), DynamicSpread}
ConstraintSamples ==
  {None, Some(ArrayConstraints(None, None)), Some(ArrayConstraints(Some(1), None)),
   Some(ArrayConstraints(None, Some(1))), Some(ArrayConstraints(Some(1), Some(2))),
   Some(ArrayConstraints(Some(2), Some(1)))}
FieldSamples ==
  {FieldDeclaration(S("a"), Simple(S("string")), FALSE, <<>>),
   FieldDeclaration(S("a"), Simple(S("string")), TRUE, <<>>),
   FieldDeclaration(S("a"), Simple(S("int")), TRUE, <<>>),
   FieldDeclaration(S("type"), Simple(S("string")), FALSE, <<>>),
   FieldDeclaration(S("type"), Simple(S("int")), FALSE, <<>>),
   FieldDeclaration(S("type"), Simple(S("string")), TRUE, <<>>)}
TArrays == {Array(e, c) : e \in TLeaves, c \in ConstraintSamples}
TUnions == {Union(v) : v \in SeqsUpTo(TBranches, MaxVariants)}
TStructs == {Struct(f) : f \in SeqsUpTo(FieldSamples, MaxFields)}
TInner ==
  {Array(Simple(S("string")), None),
   Array(Simple(S("int")), Some(ArrayConstraints(Some(1), None))),
   Union(<<Simple(S("string")), Simple(S("int"))>>),
   Struct(<<FieldDeclaration(S("a"), Simple(S("string")), FALSE, <<>>),
            FieldDeclaration(S("type"), Simple(S("int")), FALSE, <<>>)>>)}
TNested ==
  {Array(e, c) : e \in TInner, c \in {None, Some(ArrayConstraints(Some(1), Some(2)))}}
  \cup {Union(v) : v \in SeqsUpTo(TInner, MaxVariants)}
  \cup {Struct(<<FieldDeclaration(S("a"), t, o, <<>>)>>) : t \in TInner, o \in BOOLEAN}
TypeSamples == TLeaves \cup TArrays \cup TUnions \cup TStructs \cup TNested
PathSamples == {<<>>, <<S("root")>>}

(***************************************************************************)
(* SpecStructure: one call of validate_json_against_structure on a         *)
(* validator whose resolver holds SampleResolved.                          *)
(***************************************************************************)
InitStructure ==
  /\ modules = SampleModules
  /\ resolved = SampleResolved
  /\ resolution_order = <<S("Alias"), S("recipes")>>
  /\ registries = <<>>
  /\ outcome = NoOutcome
  /\ call \in {[json |-> j, type_expr |-> t, path |-> p, ord |-> <<>>] :
                 j \in JsonSamples, t \in TypeSamples, p \in PathSamples}
  /\ result = <<>>
  /\ pc = "ready"
  /\ current_version = None
  /\ lexer = None
  /\ parser = None
  /\ steps = 0

\* validate_json_against_structure(json, type_expr, path, context)
ValidateStructure ==
  /\ pc = "ready"
  /\ \E ord \in Orders(DOMAIN resolved) :
       /\ call' = [call EXCEPT !.ord = ord]
       /\ result' = validate_json_against_structure(call.json, call.type_expr,
                                                    call.path, ord)
  /\ pc' = "done"
  /\ steps' = steps + 1
  /\ UNCHANGED <<parser, lexer, current_version, modules, resolved,
                 resolution_order, registries, outcome>>

NextStructure == ValidateStructure

SpecStructure == InitStructure /\ [][NextStructure]_vars

(***************************************************************************)
(* ImportResolver: add_module and resolve_all                              *)
(***************************************************************************)
\* resolve_import_path: an absolute path is its segments joined by "/"; a
\* relative one replaces the last part of the importing module's path.
\* (split yields at least one part, so the ModuleNotFound return of the
\* relative arm is never taken.)
\* A variant of resolve_import_path that leaves the last segment of an
\* import out of the module path.
resolve_import_path_WithoutName(current_module, import_path) ==
  LET module_segments ==
        SubSeq(import_path.segments, 1, Len(import_path.segments) - 1)
  IN IF import_path.abs THEN Join(module_segments, "/")
     ELSE Join(SubSeq(Split(current_module, "/"), 1,
                      Len(Split(current_module, "/")) - 1)
               \o module_segments, "/")

resolve_import_path(current_module, import_path) ==
  IF import_path.abs THEN Join(import_path.segments, "/")
  ELSE LET current_parts == Split(current_module, "/")
           resolved_parts ==
             SubSeq(current_parts, 1, Len(current_parts) - 1)
             \o import_path.segments
       IN Join(resolved_parts, "/")

\* The resolved paths of a file's imports, in import order.
ImportPaths(module_path, file) ==
  [i \in 1..Len(file.imports) |->
     resolve_import_path(module_path, file.imports[i].path)]

\* build_dependency_graph: module path -> the resolved paths of its imports.
build_dependency_graph ==
  [m \in DOMAIN modules |-> ImportPaths(m, modules[m])]

\* The <<module, dependency>> pairs in the order the loops
\* `for (module, dependencies) in graph` / `for dependency in dependencies`
\* meet them; gord is the iteration order of graph.
RECURSIVE EdgesInOrder(_, _)
EdgesInOrder(graph, gord) ==
  IF Len(gord) = 0 THEN <<>>
  ELSE [i \in 1..Len(graph[gord[1]]) |-> <<gord[1], graph[gord[1]][i]>>]
       \o EdgesInOrder(graph, Tail(gord))

\* adjacency: dependency -> its dependents, in the order they were pushed.
Adjacency(graph, gord) ==
  LET edges == EdgesInOrder(graph, gord)
      from(e) == e[1]
  IN [d \in DOMAIN graph |->
        LET hits == SelectSeq(edges, LAMBDA e : e[2] = d)
        IN [i \in 1..Len(hits) |-> from(hits[i])]]

\* A variant of in_degree that never counts a dependency.
InDegree_NeverCounted(graph) == [m \in DOMAIN graph |-> 0]

\* in_degree: module -> the number of its dependencies.
InDegree(graph) == [m \in DOMAIN graph |-> Len(graph[m])]

\* The degrees after the dependents in deps[i..] each lost one.
RECURSIVE DecrementAll(_, _, _)
DecrementAll(in_degree, deps, i) ==
  IF i > Len(deps) THEN in_degree
  ELSE DecrementAll([in_degree EXCEPT ![deps[i]] = @ - 1], deps, i + 1)

\* The dependents that reach degree 0 while deps[i..] are decremented, in
\* the order they are pushed to the queue.
RECURSIVE NewlyFree(_, _, _)
NewlyFree(in_degree, deps, i) ==
  IF i > Len(deps) THEN <<>>
  ELSE LET d == [in_degree EXCEPT ![deps[i]] = @ - 1]
       IN (IF d[deps[i]] = 0 THEN <<deps[i]>> ELSE <<>>)
          \o NewlyFree(d, deps, i + 1)

\* Kahn's loop: `while let Some(current) = queue.pop_front()`.
RECURSIVE KahnLoop(_, _, _, _)
KahnLoop(queue, sorted, in_degree, adjacency) ==
  IF Len(queue) = 0 THEN sorted
  ELSE LET current == Head(queue)
           deps == adjacency[current]
       IN KahnLoop(Tail(queue) \o NewlyFree(in_degree, deps, 1),
                   Append(sorted, current),
                   DecrementAll(in_degree, deps, 1), adjacency)

ModuleNotFound(module, from) ==
  [kind |-> "ModuleNotFound", module |-> module, from |-> from]
CircularDependency(cycle) == [kind |-> "CircularDependency", cycle |-> cycle]
ResolveOk == [kind |-> "ok"]

\* find_cycle's dfs.  Returns the cycle found (an Option) and the visited
\* set as the call leaves it; rec_stack and path are restored by a call
\* that returns None.
RECURSIVE dfs(_, _, _, _, _)
RECURSIVE DfsNeighbors(_, _, _, _, _, _)
DfsNeighbors(neighbors, i, graph, visited, rec_stack, path) ==
  IF i > Len(neighbors) THEN [cycle |-> None, visited |-> visited]
  ELSE LET neighbor == neighbors[i]
       IN IF neighbor \in rec_stack
          THEN LET cycle_start == CHOOSE k \in 1..Len(path) :
                                    /\ path[k] = neighbor
                                    /\ \A j \in 1..(k - 1) : path[j] # neighbor
               IN [cycle |-> Some(Append(SubSeq(path, cycle_start, Len(path)),
                                         neighbor)),
                   visited |-> visited]
          ELSE IF neighbor \notin visited
               THEN LET r == dfs(neighbor, graph, visited, rec_stack, path)
                    IN IF r.cycle.some THEN r
                       ELSE DfsNeighbors(neighbors, i + 1, graph, r.visited,
                                         rec_stack, path)
               ELSE DfsNeighbors(neighbors, i + 1, graph, visited, rec_stack,
                                 path)

dfs(node, graph, visited, rec_stack, path) ==
  LET neighbors == IF node \in DOMAIN graph THEN graph[node] ELSE <<>>
  IN DfsNeighbors(neighbors, 1, graph, visited \cup {node},
                  rec_stack \cup {node}, Append(path, node))

\* find_cycle: dfs from each unvisited remaining node, in order; the
\* remaining nodes themselves when no dfs finds a cycle.
RECURSIVE FindCycleFrom(_, _, _, _)
FindCycleFrom(remaining, i, graph, visited) ==
  IF i > Len(remaining) THEN remaining
  ELSE IF remaining[i] \in visited
       THEN FindCycleFrom(remaining, i + 1, graph, visited)
       ELSE LET r == dfs(remaining[i], graph, visited, {}, <<>>)
            IN IF r.cycle.some THEN r.cycle.v
               ELSE FindCycleFrom(remaining, i + 1, graph, r.visited)

\* A variant of find_cycle that does not close the cycle.
find_cycle_Unclosed(remaining, graph) ==
  LET cycle == FindCycleFrom(remaining, 1, graph, {})
  IN SubSeq(cycle, 1, Len(cycle) - 1)

find_cycle(remaining, graph) == FindCycleFrom(remaining, 1, graph, {})

\* topological_sort: gord is the iteration order of graph, dord that of
\* in_degree.  Returns ok and the order, or the error.
topological_sort(graph, gord, dord) ==
  LET edges == EdgesInOrder(graph, gord)
      missing == FirstTrue([i \in 1..Len(edges) |->
                              edges[i][2] \notin DOMAIN modules])
  IN IF missing # 0
     THEN [ok |-> FALSE,
           err |-> ModuleNotFound(edges[missing][2], edges[missing][1])]
     ELSE LET in_degree == InDegree(graph)
              queue == SelectSeq(dord, LAMBDA m : in_degree[m] = 0)
              sorted == KahnLoop(queue, <<>>, in_degree, Adjacency(graph, gord))
          IN IF Len(sorted) # Cardinality(DOMAIN graph)
             THEN LET remaining ==
                        SelectSeq(gord,
                          LAMBDA k : \A i \in 1..Len(sorted) : sorted[i] # k)
                  IN [ok |-> FALSE,
                      err |-> CircularDependency(find_cycle(remaining, graph))]
             ELSE [ok |-> TRUE, order |-> sorted]

\* A variant of resolve_module that records no dependencies.
resolve_module_NoDependencies(res, module_path) ==
  IF module_path \in DOMAIN res THEN res
  ELSE (module_path :> ResolvedModule(module_path, modules[module_path], <<>>))
       @@ res

\* resolve_module: a module already resolved is left as it is; otherwise
\* its file and the resolved paths of its imports are recorded.
resolve_module(res, module_path) ==
  IF module_path \in DOMAIN res THEN res
  ELSE (module_path :>
          ResolvedModule(module_path, modules[module_path],
                         ImportPaths(module_path, modules[module_path])))
       @@ res

\* The loop `for module_path in resolution_order` of resolve_all.
RECURSIVE ResolveInOrder(_, _, _)
ResolveInOrder(res, order, i) ==
  IF i > Len(order) THEN res
  ELSE ResolveInOrder(resolve_module(res, order[i]), order, i + 1)

(***************************************************************************)
(* SpecResolver: add_module and resolve_all called in any order on a new   *)
(* ImportResolver.                                                         *)
(***************************************************************************)
MaxSteps == 4       \* at most this many operations are called

Import(path) == [path |-> path]
ModulePathSamples == {S("a"), S("b"), S("c")}
FileSamples ==
  {McDocFile(<<>>, <<>>),
   McDocFile(<<>>, <<TypeDeclaration(S("T"), Simple(S("string")))>>),
   McDocFile(<<Import(Absolute(<<S("a")>>))>>, <<>>),
   McDocFile(<<Import(Absolute(<<S("b")>>))>>, <<>>),
   McDocFile(<<Import(Relative(<<S("c")>>))>>, <<>>),
   McDocFile(<<Import(Absolute(<<S("zz")>>))>>, <<>>),
   McDocFile(<<Import(Absolute(<<S("a")>>)), Import(Absolute(<<S("b")>>))>>, <<>>)}

InitResolver ==
  /\ modules = <<>>
  /\ resolved = <<>>
  /\ resolution_order = <<>>
  /\ registries = <<>>
  /\ outcome = NoOutcome
  /\ call = [op |-> "new"]
  /\ result = <<>>
  /\ pc = "ready"
  /\ current_version = None
  /\ lexer = None
  /\ parser = None
  /\ steps = 0

\* add_module(path, file)
AddModule ==
  /\ steps < MaxSteps
  /\ \E path \in ModulePathSamples, file \in FileSamples :
       /\ modules' = (path :> file) @@ modules
       /\ call' = [op |-> "add_module", path |-> path]
  /\ steps' = steps + 1
  /\ UNCHANGED <<parser, lexer, current_version, resolved, resolution_order,
                 registries, outcome,
                 result, pc>>

\* A variant of resolve_all that clears the stored order when it fails.
ResolveAll_ClearsOrderOnFailure ==
  /\ steps < MaxSteps
  /\ \E gord \in Orders(DOMAIN modules), dord \in Orders(DOMAIN modules) :
       LET sorted == topological_sort(build_dependency_graph, gord, dord)
       IN IF sorted.ok
          THEN /\ resolution_order' = sorted.order
               /\ resolved' = ResolveInOrder(resolved, sorted.order, 1)
               /\ outcome' = ResolveOk
          ELSE /\ outcome' = sorted.err
               /\ resolution_order' = <<>>
               /\ UNCHANGED resolved
  /\ call' = [op |-> "resolve_all"]
  /\ steps' = steps + 1
  /\ UNCHANGED <<parser, lexer, current_version, modules, registries, result,
                 pc>>

\* resolve_all()
ResolveAll ==
  /\ steps < MaxSteps
  /\ \E gord \in Orders(DOMAIN modules), dord \in Orders(DOMAIN modules) :
       LET sorted == topological_sort(build_dependency_graph, gord, dord)
       IN IF sorted.ok
          THEN /\ resolution_order' = sorted.order
               /\ resolved' = ResolveInOrder(resolved, sorted.order, 1)
               /\ outcome' = ResolveOk
          ELSE /\ outcome' = sorted.err
               /\ UNCHANGED <<resolved, resolution_order>>
  /\ call' = [op |-> "resolve_all"]
  /\ steps' = steps + 1
  /\ UNCHANGED <<parser, lexer, current_version, modules, registries, result,
                 pc>>

NextResolver == AddModule \/ ResolveAll

SpecResolver == InitResolver /\ [][NextResolver]_vars

(***************************************************************************)
(* SpecImports: add_module and resolve_all on modules whose paths and      *)
(* imports have several segments.                                          *)
(***************************************************************************)
MaxAdded == 3       \* add_module is called in the first MaxAdded steps only

\* The path a/b/c as the string "a/b/c".
PathOf(segments) == Join(segments, "/")

NestedPathSamples ==
  {PathOf(<<S("a"), S("b")>>), PathOf(<<S("a"), S("b"), S("C")>>),
   PathOf(<<S("x"), S("m")>>), PathOf(<<S("x"), S("a"), S("C")>>)}
NestedFileSamples ==
  {McDocFile([i \in 1..Len(paths) |-> Import(paths[i])], <<>>) :
     paths \in {<<>>, <<Absolute(<<S("a"), S("b"), S("C")>>)>>,
                <<Absolute(<<S("a"), S("b"), S("C")>>),
                  Relative(<<S("a"), S("C")>>)>>}}

\* add_module(path, file), on the nested paths
AddNestedModule ==
  /\ steps < MaxAdded
  /\ \E path \in NestedPathSamples, file \in NestedFileSamples :
       /\ modules' = (path :> file) @@ modules
       /\ call' = [op |-> "add_module", path |-> path]
  /\ steps' = steps + 1
  /\ UNCHANGED <<parser, lexer, current_version, resolved, resolution_order,
                 registries, outcome, result, pc>>

NextImports == AddNestedModule \/ ResolveAll

SpecImports == InitResolver /\ [][NextImports]_vars

(***************************************************************************)
(* SpecLookup: one dispatch lookup, find_dispatch_target or                *)
(* resolve_spread_target, on a resolver whose modules "m1" and "m2",       *)
(* neither importing anything, were added and resolved.                    *)
(***************************************************************************)
MaxDecls == 2       \* a module of the inputs holds at most this many dispatches

DispatchSamples ==
  {DispatchDeclaration(S("resource"), <<Specific(S("recipe"))>>, Simple(S("string"))),
   DispatchDeclaration(S("resource"), <<Unknown>>, Simple(S("boolean"))),
   DispatchDeclaration(S("resource"), <<Specific(S("loot_table"))>>, Simple(S("int"))),
   DispatchDeclaration(S("recipe_serializer"), <<Specific(S("shaped"))>>,
     Simple(S("double"))),
   DispatchDeclaration(S("recipe_serializer"), <<Unknown>>, Simple(S("any")))}
DispatchFiles ==
  {McDocFile(<<>>, decls) : decls \in SeqsUpTo(DispatchSamples, MaxDecls)}
LookupSamples ==
  {[op |-> "find_dispatch_target", registry |-> S("resource"), key |-> k,
    ord |-> <<>>] : k \in {S("recipe"), S("loot_table"), S("advancement")}}
  \cup
  {[op |-> "resolve_spread_target", registry |-> S("recipe_serializer"),
    key |-> k, ord |-> <<>>] : k \in {S("shaped"), S("smelting"), <<>>}}

InitLookup ==
  /\ \E f1 \in DispatchFiles, f2 \in DispatchFiles :
       /\ modules = (S("m1") :> f1) @@ (S("m2") :> f2)
       /\ resolved = (S("m1") :> ResolvedModule(S("m1"), f1, <<>>))
                     @@ (S("m2") :> ResolvedModule(S("m2"), f2, <<>>))
  /\ resolution_order = <<S("m1"), S("m2")>>
  /\ registries = <<>>
  /\ outcome = ResolveOk
  /\ call \in LookupSamples
  /\ result = None
  /\ pc = "ready"
  /\ current_version = None
  /\ lexer = None
  /\ parser = None
  /\ steps = 0

\* find_dispatch_target(namespace, resource_type), read as its callers do:
\* the target type of the dispatch found.
FindDispatchTarget ==
  /\ pc = "ready"
  /\ call.op = "find_dispatch_target"
  /\ \E ord \in Orders(DOMAIN resolved) :
       /\ call' = [call EXCEPT !.ord = ord]
       /\ result' =
            LET found == find_dispatch_target(S("minecraft"), call.key, ord)
            IN IF found.some THEN Some(found.v.target_type) ELSE None
  /\ pc' = "done"
  /\ steps' = steps + 1
  /\ UNCHANGED <<parser, lexer, current_version, modules, resolved,
                 resolution_order, registries, outcome>>

\* resolve_spread_target("minecraft:<registry>", dynamic_value)
ResolveSpreadTarget ==
  /\ pc = "ready"
  /\ call.op = "resolve_spread_target"
  /\ \E ord \in Orders(DOMAIN resolved) :
       /\ call' = [call EXCEPT !.ord = ord]
       /\ result' =
            resolve_spread_target(Cat(S("minecraft"), Cat(S(":"), call.registry)),
                                  call.key, ord)
  /\ pc' = "done"
  /\ steps' = steps + 1
  /\ UNCHANGED <<parser, lexer, current_version, modules, resolved,
                 resolution_order, registries, outcome>>

NextLookup == FindDispatchTarget \/ ResolveSpreadTarget

SpecLookup == InitLookup /\ [][NextLookup]_vars

(***************************************************************************)
(* ResourceId (src/src/lib.rs)                                             *)
(***************************************************************************)
InvalidResourceId(input) == [kind |-> "InvalidResourceId", input |-> input]

\* ResourceId::parse: "ns:path", or a bare path with an empty namespace.
ResourceId_parse(input) ==
  LET parts == Split(input, ":")
  IN IF Len(parts) = 2
     THEN [ok |-> TRUE, v |-> [namespace |-> parts[1], path |-> parts[2]]]
     ELSE IF Len(parts) = 1
          THEN [ok |-> TRUE, v |-> [namespace |-> <<>>, path |-> parts[1]]]
          ELSE [ok |-> FALSE, err |-> InvalidResourceId(input)]

\* ResourceId::to_string: format!("{}:{}", namespace, path)
ResourceId_to_string(id) == Cat(id.namespace, Cat(S(":"), id.path))

(***************************************************************************)
(* Registry and RegistryManager (src/src/registry.rs)                      *)
(***************************************************************************)
Registry(name, entries, tags, version) ==
  [name |-> name, entries |-> entries, tags |-> tags, version |-> version]

\* json.get(key).and_then(|v| v.as_object()): the members, or None.
GetObject(json, key) ==
  IF ~is_object(json) THEN None
  ELSE LET found == ObjGet(json, key)
       IN IF found.some /\ is_object(found.v) THEN Some(found.v.members)
          ELSE None

\* The strings of an array, in order (filter_map over as_str).
StringItems(items) ==
  LET strings == SelectSeq(items, LAMBDA v : is_string(v))
  IN [i \in 1..Len(strings) |-> strings[i].s]

\* A variant of Registry::from_json that makes the members of every tag
\* entries of the registry too.
Registry_from_json_ExpandsTags(name, version, json) ==
  LET entries == GetObject(json, S("entries"))
      tags == GetObject(json, S("tags"))
      tag_members == IF tags.some
                     THEN SelectSeq(tags.v, LAMBDA m : is_array(m[2]))
                     ELSE <<>>
  IN Registry(name,
       (IF entries.some THEN {entries.v[i][1] : i \in 1..Len(entries.v)} ELSE {})
         \cup UNION {{StringItems(tag_members[i][2].items)[k] :
                        k \in 1..Len(StringItems(tag_members[i][2].items))} :
                      i \in 1..Len(tag_members)},
       [t \in {tag_members[i][1] : i \in 1..Len(tag_members)} |->
          StringItems(tag_members[
            CHOOSE i \in 1..Len(tag_members) : tag_members[i][1] = t][2].items)],
       version)

\* Registry::from_json: the keys of "entries" are the entries; every member
\* of "tags" whose value is an array is a tag holding the array's strings.
Registry_from_json(name, version, json) ==
  LET entries == GetObject(json, S("entries"))
      tags == GetObject(json, S("tags"))
      tag_members == IF tags.some
                     THEN SelectSeq(tags.v, LAMBDA m : is_array(m[2]))
                     ELSE <<>>
  IN Registry(name,
       IF entries.some THEN {entries.v[i][1] : i \in 1..Len(entries.v)} ELSE {},
       [t \in {tag_members[i][1] : i \in 1..Len(tag_members)} |->
          StringItems(tag_members[
            CHOOSE i \in 1..Len(tag_members) : tag_members[i][1] = t][2].items)],
       version)

contains(registry, resource_location) == resource_location \in registry.entries
contains_tag(registry, tag_name) == tag_name \in DOMAIN registry.tags

\* has_registry
has_registry(name) == name \in DOMAIN registries

InvalidRegistry(path, value, registry) ==
  [kind |-> "InvalidRegistry", path |-> path, value |-> value,
   registry |-> registry]

\* str::starts_with("minecraft:")
StartsWithMinecraft(s) == Len(s) >= 2 /\ s[1] = "minecraft" /\ s[2] = ":"

\* validate_resource_location: Ok(bool), or Err for a registry not loaded.
\* A tag is looked up without its leading '#'; a resource location is also
\* tried without its "minecraft:" prefix, or with it when it has no ':'.
validate_resource_location(registry_name, resource_location, is_tag) ==
  IF registry_name \notin DOMAIN registries
  THEN [ok |-> FALSE,
        err |-> InvalidRegistry(S("unknown"), resource_location, registry_name)]
  ELSE LET registry == registries[registry_name]
       IN IF is_tag
          THEN LET stripped == StripPrefixChar(resource_location, "#")
                   tag_name == IF stripped.some THEN stripped.v
                               ELSE resource_location
               IN [ok |-> TRUE, v |-> contains_tag(registry, tag_name)]
          ELSE LET found == contains(registry, resource_location)
               IN IF ~found /\ StartsWithMinecraft(resource_location)
                  THEN [ok |-> TRUE,
                        v |-> contains(registry,
                                SubSeq(resource_location, 3, Len(resource_location)))]
                  ELSE IF ~found /\ ~ContainsChar(resource_location, ":")
                       THEN [ok |-> TRUE,
                             v |-> contains(registry,
                                     Cat(<<"minecraft", ":">>, resource_location))]
                       ELSE [ok |-> TRUE, v |-> found]

\* looks_like_resource_location: after one leading '#', the string holds a
\* ':' and only alphanumerics, ':', '_', '/' and '.'.
looks_like_resource_location(s0) ==
  LET stripped == StripPrefixChar(s0, "#")
      s == IF stripped.some THEN stripped.v ELSE s0
  IN /\ ContainsChar(s, ":")
     /\ \A i \in 1..Len(s) :
          s[i] \in {":", "/", "."}
          \/ (s[i] \notin Separators /\ s[i] \notin NonWordAtoms)

\* The registry words an atom holds as a substring, for the atoms of the
\* documents modelled.
WordsWithin(atom) ==
  CASE atom = "item" -> {"item"}
    [] atom = "items" -> {"item"}
    [] atom = "block_items" -> {"block", "item"}
    [] atom = "sound" -> {"sound"}
    [] OTHER -> {}

\* str::contains(word) for a word without separator characters.
ContainsWord(s, word) == \E i \in 1..Len(s) : word \in WordsWithin(s[i])

\* infer_registry_type: the first word of the list that the path contains.
infer_registry_type(path, value) ==
  IF ContainsWord(path, "item") THEN S("item")
  ELSE IF ContainsWord(path, "block") THEN S("block")
  ELSE IF ContainsWord(path, "recipe") THEN S("recipe")
  ELSE IF ContainsWord(path, "enchantment") THEN S("enchantment")
  ELSE IF ContainsWord(path, "biome") THEN <<"worldgen", "/", "biome">>
  ELSE IF ContainsWord(path, "damage") THEN S("damage_type")
  ELSE IF ContainsWord(path, "sound") THEN S("sound_event")
  ELSE S("unknown")

RegistryDependency(registry, identifier, is_tag) ==
  [registry |-> registry, identifier |-> identifier, is_tag |-> is_tag]

\* scan_json_recursive: the dependencies pushed while value is walked at
\* path; a member is walked at "path.key" (or "key" at the root), an item at
\* "path[index]".
RECURSIVE scan_json_recursive(_, _)
RECURSIVE ScanMembers(_, _, _)
RECURSIVE ScanItems(_, _, _)
ScanMembers(members, i, path) ==
  IF i > Len(members) THEN <<>>
  ELSE LET key == members[i][1]
           new_path == IF Len(path) = 0 THEN key
                       ELSE Cat(path, Cat(S("."), key))
       IN scan_json_recursive(members[i][2], new_path)
          \o ScanMembers(members, i + 1, path)

ScanItems(items, i, path) ==
  IF i > Len(items) THEN <<>>
  ELSE LET new_path ==
             Cat(path, Cat(S("["), Cat(UsizeToString(i - 1), S("]"))))
       IN scan_json_recursive(items[i], new_path)
          \o ScanItems(items, i + 1, path)

scan_json_recursive(value, path) ==
  CASE is_string(value) ->
         IF looks_like_resource_location(value.s)
         THEN <<RegistryDependency(infer_registry_type(path, value.s), value.s,
                                   StartsWithChar(value.s, "#"))>>
         ELSE <<>>
    [] is_object(value) -> ScanMembers(value.members, 1, path)
    [] is_array(value) -> ScanItems(value.items, 1, path)
    [] OTHER -> <<>>

\* scan_required_registries
scan_required_registries(json) == scan_json_recursive(json, <<>>)

(***************************************************************************)
(* McDocValidator::validate_json and the ValidationResult it builds        *)
(* (src/src/validator.rs, src/src/types.rs)                                *)
(***************************************************************************)
McDocDependency(resource_location, registry_type, source_path, source_file, is_tag) ==
  [resource_location |-> resource_location, registry_type |-> registry_type,
   source_path |-> source_path, source_file |-> source_file, is_tag |-> is_tag]

\* message is the record of what the message is formatted from.
McDocError(file, path, message, error_type, line, column) ==
  [file |-> file, path |-> path, message |-> message,
   error_type |-> error_type, line |-> line, column |-> column]

ResourceNotFoundMessage(resource_location, registry_type) ==
  [kind |-> "ResourceNotFound", resource |-> resource_location,
   registry |-> registry_type]
InvalidIdentifierError(resource_id) ==
  [kind |-> "InvalidIdentifier", resource_id |-> resource_id]

\* ValidationResult::add_error
\* A variant of add_error that leaves is_valid as it is.
add_error_KeepsValid(res, error) == [res EXCEPT !.errors = Append(@, error)]

add_error(res, error) ==
  [res EXCEPT !.errors = Append(@, error), !.is_valid = FALSE]

\* ValidationResult::add_dependency
add_dependency(res, dependency) ==
  [res EXCEPT !.dependencies = Append(@, dependency)]

\* parse_resource_identifier: "ns:type/..." gives (ns, type).
parse_resource_identifier(resource_id) ==
  LET parts == Split(resource_id, ":")
  IN IF Len(parts) # 2
     THEN [ok |-> FALSE, err |-> <<InvalidIdentifierError(resource_id)>>]
     ELSE [ok |-> TRUE, namespace |-> parts[1],
           resource_type |-> Split(parts[2], "/")[1]]

\* validate_json_structure: the document against the target type of the
\* dispatch found for the resource type.
validate_json_structure(json, resource_id, ord) ==
  LET parsed == parse_resource_identifier(ResourceId_to_string(resource_id))
  IN IF ~parsed.ok THEN parsed.err
     ELSE LET dispatch_target ==
                find_dispatch_target(parsed.namespace, parsed.resource_type, ord)
          IN IF ~dispatch_target.some
             THEN <<NoDispatchError(parsed.resource_type)>>
             ELSE validate_json_against_structure(
                    json, dispatch_target.v.target_type, <<>>, ord)

\* Step 2 of validate_json: one dependency per scanned string.
RECURSIVE AddScanned(_, _, _, _)
AddScanned(res, scanned, i, resource_id) ==
  IF i > Len(scanned) THEN res
  ELSE AddScanned(
         add_dependency(res,
           McDocDependency(scanned[i].identifier, scanned[i].registry,
                           S("auto-detected"), Some(resource_id),
                           scanned[i].is_tag)),
         scanned, i + 1, resource_id)

\* Step 3 of validate_json: one error per structural error, path empty,
\* line and column those of the ValidationError (0, 0).
RECURSIVE AddStructureErrors(_, _, _, _)
AddStructureErrors(res, errors, i, resource_id) ==
  IF i > Len(errors) THEN res
  ELSE AddStructureErrors(
         add_error(res, McDocError(resource_id, <<>>, errors[i],
                                   "ValidationError", Some(0), Some(0))),
         errors, i + 1, resource_id)

\* A variant of step 4 that also reports dependencies of registries that
\* are not loaded.
RECURSIVE CheckDependencies_Unloaded(_, _, _, _)
CheckDependencies_Unloaded(res, dependencies, i, resource_id) ==
  IF i > Len(dependencies) THEN res
  ELSE LET dependency == dependencies[i]
           checked == validate_resource_location(dependency.registry_type,
                        dependency.resource_location, dependency.is_tag)
       IN CheckDependencies_Unloaded(
            IF checked.ok /\ checked.v THEN res
            ELSE add_error(res,
                   McDocError(resource_id, dependency.source_path,
                     ResourceNotFoundMessage(dependency.resource_location,
                                             dependency.registry_type),
                     "ValidationError", None, None)),
            dependencies, i + 1, resource_id)

\* Step 4 of validate_json: every dependency whose registry is loaded is
\* looked up; Ok(false) adds a "not found in registry" error at the
\* dependency's source_path, Err(e) adds McDocError::from(e).
RECURSIVE CheckDependencies(_, _, _, _)
CheckDependencies(res, dependencies, i, resource_id) ==
  IF i > Len(dependencies) THEN res
  ELSE LET dependency == dependencies[i]
           checked == validate_resource_location(dependency.registry_type,
                        dependency.resource_location, dependency.is_tag)
           next ==
             IF ~has_registry(dependency.registry_type) THEN res
             ELSE IF ~checked.ok
                  THEN add_error(res, McDocError(<<>>, <<>>, checked.err,
                                                 "ValidationError", None, None))
                  ELSE IF checked.v THEN res
                       ELSE add_error(res,
                              McDocError(resource_id, dependency.source_path,
                                ResourceNotFoundMessage(
                                  dependency.resource_location,
                                  dependency.registry_type),
                                "ValidationError", None, None))
       IN CheckDependencies(next, dependencies, i + 1, resource_id)

\* A variant of the result validate_json starts from: the result of the
\* call before, kept by the validator.
NewValidationResult_KeptBetweenCalls ==
  IF "is_valid" \in DOMAIN result
  THEN result
  ELSE [is_valid |-> TRUE, errors |-> <<>>, dependencies |-> <<>>]

\* ValidationResult::success()
NewValidationResult == [is_valid |-> TRUE, errors |-> <<>>, dependencies |-> <<>>]

\* A variant of validate_json that returns at a structural error without
\* the scanned dependencies.
validate_json_FailureOnly(json, resource_id, ord) ==
  LET parsed_id == ResourceId_parse(resource_id)
  IN IF ~parsed_id.ok
     THEN add_error(NewValidationResult,
            McDocError(resource_id, <<>>, parsed_id.err, "IoError", None, None))
     ELSE LET structure == validate_json_structure(json, parsed_id.v, ord)
              scanned == AddScanned(NewValidationResult,
                           scan_required_registries(json), 1, resource_id)
          IN IF Len(structure) > 0
             THEN AddStructureErrors(NewValidationResult, structure, 1, resource_id)
             ELSE CheckDependencies(scanned, scanned.dependencies, 1, resource_id)

\* validate_json(json, resource_id): 1. parse the resource id (an invalid id
\* returns one error at once); 2. scan the dependencies; 3. validate the
\* structure; 4. look the dependencies up in the loaded registries.
validate_json(json, resource_id, ord) ==
  LET parsed_id == ResourceId_parse(resource_id)
  IN IF ~parsed_id.ok
     THEN add_error(NewValidationResult,
            McDocError(resource_id, <<>>, parsed_id.err, "IoError", None, None))
     ELSE LET scanned == AddScanned(NewValidationResult,
                           scan_required_registries(json), 1, resource_id)
              structured ==
                AddStructureErrors(scanned,
                  validate_json_structure(json, parsed_id.v, ord), 1, resource_id)
          IN CheckDependencies(structured, structured.dependencies, 1, resource_id)

(***************************************************************************)
(* Spec: registries are loaded into a validator whose schema modules were  *)
(* added and resolved, then one document is validated with validate_json.  *)
(***************************************************************************)
ResourceLocation(namespace, path) == <<namespace, ":", path>>
Tag(namespace, path) == <<"#", namespace, ":", path>>

\* module "test": dispatch minecraft:resource[test] to struct {
\*   item?: #[id(registry="item")] string, result: #[id="item"] string }
TestFile ==
  McDocFile(<<>>,
    <<DispatchDeclaration(S("resource"), <<Specific(S("test"))>>,
        Struct(<<FieldDeclaration(S("item"), Simple(S("string")), TRUE,
                   <<Annotation(S("id"),
                       AnnotationComplex(S("registry") :> S("item")))>>),
                 FieldDeclaration(S("result"), Simple(S("string")), FALSE,
                   <<Annotation(S("id"), AnnotationSimple(S("item")))>>)>>))>>)
\* module "loot": dispatch minecraft:resource[loot_table] to int
LootFile ==
  McDocFile(<<>>,
    <<DispatchDeclaration(S("resource"), <<Specific(S("loot_table"))>>,
        Simple(S("int")))>>)
SchemaSamples ==
  {<<>>,
   S("test") :> TestFile,
   (S("test") :> TestFile) @@ (S("loot") :> LootFile)}

RegistryNameSamples == {S("item"), S("unknown")}
VersionSample == <<"1", ".", "21">>
RegistryJsonSamples ==
  {JObj(<< <<S("entries"),
             JObj(<< <<ResourceLocation("minecraft", "diamond"), JObj(<<>>)>>,
                     <<ResourceLocation("minecraft", "stick"), JObj(<<>>)>> >>)>>,
           <<S("tags"),
             JObj(<< <<ResourceLocation("minecraft", "swords"),
                       JArr(<<JStr(ResourceLocation("minecraft", "diamond")),
                              JInt(1)>>)>>,
                     <<ResourceLocation("minecraft", "ignored"), JInt(1)>> >>)>> >>),
   JObj(<< <<S("entries"), JObj(<< <<S("diamond"), JObj(<<>>)>> >>)>> >>),
   JNull}

ValueSamples ==
  {JStr(ResourceLocation("minecraft", "diamond")),
   JStr(ResourceLocation("minecraft", "unobtainium")),
   JStr(Tag("minecraft", "swords")),
   JStr(S("diamond")),
   JInt(1)}
MemberSamples(key) == {<<>>} \cup {<< <<key, v>> >> : v \in ValueSamples}
DocumentSamples ==
  {JObj(item \o res) :
     item \in MemberSamples(S("item")), res \in MemberSamples(S("result"))}
  \cup
  {JObj(<< <<S("items"),
             JArr(<<JStr(ResourceLocation("minecraft", "diamond")),
                    JStr(ResourceLocation("minecraft", "unobtainium"))>>)>>,
           <<S("result"), JStr(Tag("minecraft", "axes"))>> >>),
   JStr(ResourceLocation("minecraft", "diamond"))}
ResourceIdSamples ==
  {<<"minecraft", ":", "test", "/", "x">>,
   S("test"),
   <<"minecraft", ":", "advancement", "/", "x">>,
   <<"a", ":", "b", ":", "c">>}

Init ==
  /\ \E schema \in SchemaSamples :
       /\ modules = schema
       /\ resolved = [m \in DOMAIN schema |-> ResolvedModule(m, schema[m], <<>>)]
       /\ resolution_order \in Orders(DOMAIN schema)
  /\ registries = <<>>
  /\ outcome = ResolveOk
  /\ call = [op |-> "new"]
  /\ result = NewValidationResult
  /\ pc = "ready"
  /\ current_version = None
  /\ lexer = None
  /\ parser = None
  /\ steps = 0

\* A variant of add_registry that merges the registry into the one loaded
\* under its name before.
add_registry_Merges(registry) ==
  IF registry.name \notin DOMAIN registries THEN (registry.name :> registry)
                                                  @@ registries
  ELSE (registry.name :>
          Registry(registry.name,
                   registry.entries \cup registries[registry.name].entries,
                   registry.tags @@ registries[registry.name].tags,
                   registry.version))
       @@ registries

\* RegistryManager::add_registry
add_registry(registry) == (registry.name :> registry) @@ registries

\* load_registry(name, version, json)
LoadRegistry ==
  /\ pc = "ready"
  /\ steps < MaxSteps
  /\ \E name \in RegistryNameSamples, json \in RegistryJsonSamples :
       /\ registries' = add_registry(Registry_from_json(name, VersionSample, json))
       /\ call' = [op |-> "load_registry", name |-> name]
  /\ steps' = steps + 1
  /\ UNCHANGED <<parser, lexer, current_version, modules, resolved,
                 resolution_order, outcome, result, pc>>

\* validate_json(json, resource_id)
ValidateJson ==
  /\ pc = "ready"
  /\ steps < MaxSteps
  /\ \E json \in DocumentSamples, resource_id \in ResourceIdSamples,
        ord \in Orders(DOMAIN resolved) :
       /\ call' = [op |-> "validate_json", json |-> json,
                   resource_id |-> resource_id, ord |-> ord]
       /\ result' = validate_json(json, resource_id, ord)
  /\ pc' = "done"
  /\ steps' = steps + 1
  /\ UNCHANGED <<parser, lexer, current_version, modules, resolved,
                 resolution_order, registries, outcome>>

Next == LoadRegistry \/ ValidateJson

Spec == Init /\ [][Next]_vars

(***************************************************************************)
(* SpecRegistry: registries are loaded from JSON, under names loaded       *)
(* before too, and resource locations and tags are validated.              *)
(***************************************************************************)
\* { "entries": {id: {} ...}, "tags": {tag: [member ...] ...} }
RegistryJson(entries, tags) ==
  JObj(<< <<S("entries"),
            JObj([i \in 1..Len(entries) |-> <<entries[i], JObj(<<>>)>>])>>,
          <<S("tags"),
            JObj([i \in 1..Len(tags) |->
                    <<tags[i][1],
                      JArr([k \in 1..Len(tags[i][2]) |-> JStr(tags[i][2][k])])>>])>> >>)

\* The second tag lists stick, which is no entry of its registry.
ReloadJsonSamples ==
  {RegistryJson(<<ResourceLocation("minecraft", "diamond")>>,
                << <<ResourceLocation("minecraft", "gems"),
                     <<ResourceLocation("minecraft", "diamond")>> >> >>),
   RegistryJson(<<ResourceLocation("minecraft", "stone"), S("granite")>>,
                << <<ResourceLocation("minecraft", "tools"),
                     <<ResourceLocation("minecraft", "stick"),
                       ResourceLocation("minecraft", "stone")>> >> >>),
   RegistryJson(<<>>, <<>>)}
ReloadNameSamples == {S("item"), S("block")}
LocationSamples ==
  {ResourceLocation("minecraft", "diamond"),
   ResourceLocation("minecraft", "stone"),
   ResourceLocation("minecraft", "stick"),
   ResourceLocation("minecraft", "granite"),
   ResourceLocation("minecraft", "gems"),
   Tag("minecraft", "gems"),
   ResourceLocation("minecraft", "tools"),
   Tag("minecraft", "tools"),
   Tag("minecraft", "stick")}

InitRegistry ==
  /\ modules = <<>>
  /\ resolved = <<>>
  /\ resolution_order = <<>>
  /\ registries = <<>>
  /\ outcome = ResolveOk
  /\ call = [op |-> "new"]
  /\ result = None
  /\ pc = "ready"
  /\ current_version = None
  /\ lexer = None
  /\ parser = None
  /\ steps = 0

\* load_registry_from_json(name, version, json)
LoadRegistryFromJson ==
  /\ steps < MaxSteps
  /\ \E name \in ReloadNameSamples, json \in ReloadJsonSamples :
       /\ registries' = add_registry(Registry_from_json(name, VersionSample, json))
       /\ call' = [op |-> "load_registry_from_json", name |-> name,
                   json |-> json]
  /\ steps' = steps + 1
  /\ UNCHANGED <<parser, lexer, current_version, modules, resolved,
                 resolution_order, outcome, result, pc>>

\* validate_resource_location(registry_name, resource_location, is_tag)
ValidateResourceLocation ==
  /\ steps < MaxSteps
  /\ \E registry_name \in ReloadNameSamples,
        resource_location \in LocationSamples, is_tag \in BOOLEAN :
       /\ result' = validate_resource_location(registry_name,
                                               resource_location, is_tag)
       /\ call' = [op |-> "validate_resource_location",
                   name |-> registry_name,
                   resource_location |-> resource_location,
                   is_tag |-> is_tag]
  /\ steps' = steps + 1
  /\ UNCHANGED <<parser, lexer, current_version, modules, resolved,
                 resolution_order, registries, outcome, pc>>

NextRegistry == LoadRegistryFromJson \/ ValidateResourceLocation

SpecRegistry == InitRegistry /\ [][NextRegistry]_vars

(***************************************************************************)
(* DatapackResult (src/src/types.rs)                                       *)
(***************************************************************************)
\* ValidationResult::success
ValidationResult_success(dependencies) ==
  [is_valid |-> TRUE, errors |-> <<>>, dependencies |-> dependencies]

\* ValidationResult::failure
ValidationResult_failure(errors) ==
  [is_valid |-> FALSE, errors |-> errors, dependencies |-> <<>>]

FileError(file_path, error) == [file_path |-> file_path, error |-> error]

\* DatapackResult::new
DatapackResult_new ==
  [total_files |-> 0, valid_files |-> 0, errors |-> <<>>,
   dependencies |-> <<>>, analysis_time_ms |-> 0]

\* The loop `for dependency in result.dependencies`:
\* entry(registry_type).or_default().push(resource_location).
RECURSIVE GroupDependencies(_, _, _)
GroupDependencies(grouped, dependencies, i) ==
  IF i > Len(dependencies) THEN grouped
  ELSE LET registry == dependencies[i].registry_type
           before == IF registry \in DOMAIN grouped THEN grouped[registry]
                     ELSE <<>>
       IN GroupDependencies(
            (registry :> Append(before, dependencies[i].resource_location))
              @@ grouped,
            dependencies, i + 1)

\* A variant of add_file_result that counts every file as valid.
add_file_result_AlwaysValid(datapack, file_path, validation) ==
  [datapack EXCEPT
     !.total_files = @ + 1,
     !.valid_files = @ + 1,
     !.errors = @ \o [i \in 1..Len(validation.errors) |->
                        FileError(file_path, validation.errors[i])],
     !.dependencies = GroupDependencies(@, validation.dependencies, 1)]

\* DatapackResult::add_file_result
add_file_result(datapack, file_path, validation) ==
  [datapack EXCEPT
     !.total_files = @ + 1,
     !.valid_files = IF validation.is_valid THEN @ + 1 ELSE @,
     !.errors = @ \o [i \in 1..Len(validation.errors) |->
                        FileError(file_path, validation.errors[i])],
     !.dependencies = GroupDependencies(@, validation.dependencies, 1)]

\* DatapackResult::set_analysis_time
set_analysis_time(datapack, time_ms) ==
  [datapack EXCEPT !.analysis_time_ms = time_ms]

(***************************************************************************)
(* SpecDatapackResult: add_file_result called any number of times on a     *)
(* new DatapackResult.  call.added is the list of the results added.       *)
(***************************************************************************)
MaxFiles == 3       \* at most this many file results are added

FilePathSamples ==
  {<<"data", "/", "minecraft", "/", "test", "/", "x", ".", "json">>,
   <<"x", ".", "json">>}
DiamondDependency ==
  McDocDependency(ResourceLocation("minecraft", "diamond"), S("item"),
                  S("auto-detected"), None, FALSE)
SampleError ==
  McDocError(S("x"), <<>>, NoDispatchError(S("x")), "ValidationError",
             Some(0), Some(0))
ValidationResultSamples ==
  {ValidationResult_success(<<>>),
   ValidationResult_success(<<DiamondDependency, DiamondDependency>>),
   ValidationResult_failure(<<SampleError>>),
   [is_valid |-> FALSE, errors |-> <<SampleError, SampleError>>,
    dependencies |-> <<DiamondDependency>>]}

InitDatapackResult ==
  /\ modules = <<>>
  /\ resolved = <<>>
  /\ resolution_order = <<>>
  /\ registries = <<>>
  /\ outcome = NoOutcome
  /\ call = [op |-> "new", added |-> <<>>]
  /\ result = DatapackResult_new
  /\ pc = "ready"
  /\ current_version = None
  /\ lexer = None
  /\ parser = None
  /\ steps = 0

\* add_file_result(file_path, result)
AddFileResult ==
  /\ steps < MaxFiles
  /\ \E file_path \in FilePathSamples, validation \in ValidationResultSamples :
       /\ result' = add_file_result(result, file_path, validation)
       /\ call' = [op |-> "add_file_result",
                   added |-> Append(call.added, validation)]
  /\ steps' = steps + 1
  /\ UNCHANGED <<parser, lexer, current_version, modules, resolved,
                 resolution_order, registries, outcome, pc>>

NextDatapackResult == AddFileResult

SpecDatapackResult == InitDatapackResult /\ [][NextDatapackResult]_vars

(***************************************************************************)
(* McDocValidator::analyze_datapack                                        *)
(***************************************************************************)
\* str::ends_with(".json")
EndsWithJson(s) == Len(s) >= 2 /\ s[Len(s) - 1] = "." /\ s[Len(s)] = "json"

\* extract_resource_id_from_path: "data/<ns>/.../<name>.json" gives
\* "<ns>:<name>" ("<ns>:unknown" without the suffix); any other path is
\* returned as it is.
extract_resource_id_from_path(file_path) ==
  LET path_parts == Split(file_path, "/")
      last == path_parts[Len(path_parts)]
      file_name == IF EndsWithJson(last) THEN SubSeq(last, 1, Len(last) - 2)
                   ELSE S("unknown")
  IN IF Len(path_parts) >= 4 /\ path_parts[1] = S("data")
     THEN Cat(path_parts[2], Cat(S(":"), file_name))
     ELSE file_path

\* serde_json::from_slice on the byte contents modelled: the bytes are
\* written as their text.
from_slice(content) ==
  CASE content = "{\"item\":\"minecraft:unobtainium\",\"result\":\"minecraft:diamond\"}" ->
         [ok |-> TRUE,
          v |-> JObj(<< <<S("item"), JStr(ResourceLocation("minecraft", "unobtainium"))>>,
                        <<S("result"), JStr(ResourceLocation("minecraft", "diamond"))>> >>)]
    [] content = "{\"result\":\"minecraft:diamond\"}" ->
         [ok |-> TRUE,
          v |-> JObj(<< <<S("result"), JStr(ResourceLocation("minecraft", "diamond"))>> >>)]
    [] content = "{\"item\":1}" ->
         [ok |-> TRUE, v |-> JObj(<< <<S("item"), JInt(1)>> >>)]
    [] OTHER -> [ok |-> FALSE, err |-> "expected value at line 1 column 1"]

JsonParseErrorMessage(e) == [kind |-> "JsonParseError", detail |-> e]

\* A variant of the closure that reports unparsable bytes as a valid file.
ProcessFile_InvalidJsonIsValid(file_path, content, ord) ==
  LET json_result == from_slice(content)
  IN IF json_result.ok
     THEN validate_json(json_result.v, extract_resource_id_from_path(file_path), ord)
     ELSE ValidationResult_success(<<>>)

\* The closure mapped over json_files: the ValidationResult of one file.
ProcessFile(file_path, content, ord) ==
  LET json_result == from_slice(content)
  IN IF json_result.ok
     THEN validate_json(json_result.v, extract_resource_id_from_path(file_path), ord)
     ELSE ValidationResult_failure(
            <<McDocError(file_path, <<>>, JsonParseErrorMessage(json_result.err),
                         "JsonError", None, None)>>)

\* A variant of the aggregation that loses the result of the last file.
RECURSIVE AggregateResults_LosesLast(_, _, _, _)
AggregateResults_LosesLast(datapack, json_files, file_results, i) ==
  IF i >= Len(json_files) THEN datapack
  ELSE AggregateResults_LosesLast(
         add_file_result(datapack, json_files[i], file_results[i].v),
         json_files, file_results, i + 1)

\* The loop `for (file_path, file_result) in file_results`.
RECURSIVE AggregateResults(_, _, _, _)
AggregateResults(datapack, json_files, file_results, i) ==
  IF i > Len(json_files) THEN datapack
  ELSE AggregateResults(
         add_file_result(datapack, json_files[i], file_results[i].v),
         json_files, file_results, i + 1)

(***************************************************************************)
(* SpecDatapack: one analyze_datapack call.  The files are filtered, the   *)
(* closure runs on each file in any order (the parallel iterator; the      *)
(* serial build is the schedule in list order), and the results, collected *)
(* in list order, are aggregated.                                          *)
(***************************************************************************)
DatapackPathSamples ==
  {<<"data", "/", "minecraft", "/", "recipes", "/", "test", ".", "json">>,
   <<"data", "/", "minecraft", "/", "recipes", "/", "other", ".", "json">>,
   <<"test", ".", "json">>,
   <<"pack", ".", "mcmeta">>}
ContentSamples ==
  {"{\"item\":\"minecraft:unobtainium\",\"result\":\"minecraft:diamond\"}",
   "{\"result\":\"minecraft:diamond\"}",
   "{oops"}
FilesSamples ==
  UNION {[paths -> ContentSamples] :
           paths \in {ps \in SUBSET DatapackPathSamples : Cardinality(ps) <= MaxFiles}}
ElapsedSamples == {0, 7}

InitDatapack ==
  /\ modules = (S("test") :> TestFile)
  /\ resolved = (S("test") :> ResolvedModule(S("test"), TestFile, <<>>))
  /\ resolution_order = <<S("test")>>
  /\ registries =
       (S("item") :>
          Registry(S("item"), {ResourceLocation("minecraft", "diamond")}, <<>>,
                   VersionSample))
  /\ outcome = ResolveOk
  /\ call = [op |-> "new"]
  /\ result = DatapackResult_new
  /\ pc = "ready"
  /\ current_version = None
  /\ lexer = None
  /\ parser = None
  /\ steps = 0

\* analyze_datapack(files): the .json files, in the iteration order of the
\* map, none processed yet.
StartAnalyze ==
  /\ pc = "ready"
  /\ \E files \in FilesSamples :
       \E order \in Orders(DOMAIN files) :
         LET json_files == SelectSeq(order, LAMBDA path : EndsWithJson(path))
         IN call' = [op |-> "analyze_datapack", files |-> files,
                     json_files |-> json_files,
                     file_results |-> [i \in 1..Len(json_files) |-> None],
                     schedule |-> <<>>, ord |-> <<S("test")>>]
  /\ pc' = "mapping"
  /\ steps' = steps + 1
  /\ UNCHANGED <<parser, lexer, current_version, modules, resolved,
                 resolution_order, registries, outcome, result>>

\* One file, any file not yet processed, goes through the closure;
\* call.schedule lists the files in the order they were processed.
MapFile ==
  /\ pc = "mapping"
  /\ \E i \in 1..Len(call.json_files) :
       /\ ~call.file_results[i].some
       /\ call' = [call EXCEPT
                     !.file_results[i] =
                       Some(ProcessFile(call.json_files[i],
                                        call.files[call.json_files[i]], call.ord)),
                     !.schedule = Append(@, i)]
  /\ steps' = steps + 1
  /\ UNCHANGED <<parser, lexer, current_version, modules, resolved,
                 resolution_order, registries, outcome,
                 result, pc>>

\* Every file is processed: the results are aggregated and the elapsed
\* time is recorded.
Aggregate ==
  /\ pc = "mapping"
  /\ \A i \in 1..Len(call.json_files) : call.file_results[i].some
  /\ \E elapsed \in ElapsedSamples :
       result' = set_analysis_time(
                   AggregateResults(DatapackResult_new, call.json_files,
                                    call.file_results, 1),
                   elapsed)
  /\ pc' = "done"
  /\ steps' = steps + 1
  /\ UNCHANGED <<parser, lexer, current_version, modules, resolved,
                 resolution_order, registries, outcome, call>>

NextDatapack == StartAnalyze \/ MapFile \/ Aggregate

SpecDatapack == InitDatapack /\ [][NextDatapack]_vars

(***************************************************************************)
(* MinecraftVersion (src/src/types.rs) and set_minecraft_version           *)
(* (src/src/validator.rs)                                                  *)
(***************************************************************************)
MinecraftVersion(major, minor, patch) ==
  [major |-> major, minor |-> minor, patch |-> patch]

\* str::parse::<u32> on the decimal literals the samples use; any other
\* text is not a u32.
DecimalValue ==
  ("0" :> 0) @@ ("1" :> 1) @@ ("5" :> 5) @@ ("15" :> 15) @@ ("16" :> 16)
    @@ ("20" :> 20)
parse_u32(part) ==
  IF Len(part) = 1 /\ part[1] \in DOMAIN DecimalValue
  THEN Some(DecimalValue[part[1]])
  ELSE None

\* MinecraftVersion::parse: "major.minor" or "major.minor.patch".
MinecraftVersion_parse(version) ==
  LET parts == Split(version, ".")
      major == parse_u32(parts[1])
      minor == parse_u32(parts[2])
      patch == parse_u32(parts[3])
  IN IF Len(parts) = 2
     THEN IF major.some /\ minor.some
          THEN Some(MinecraftVersion(major.v, minor.v, 0))
          ELSE None
     ELSE IF Len(parts) = 3
     THEN IF major.some /\ minor.some /\ patch.some
          THEN Some(MinecraftVersion(major.v, minor.v, patch.v))
          ELSE None
     ELSE None

\* MinecraftVersion::is_at_least: self >= other, major then minor then patch.
is_at_least(self, other) ==
  IF self.major > other.major THEN TRUE
  ELSE IF self.major < other.major THEN FALSE
  ELSE IF self.minor > other.minor THEN TRUE
  ELSE IF self.minor < other.minor THEN FALSE
  ELSE self.patch >= other.patch

(***************************************************************************)
(* SpecValidationResult: the ValidationResult of validate_json or of       *)
(* ValidationResult::success, and add_error and add_dependency called on   *)
(* it in any order.                                                        *)
(***************************************************************************)
ErrorSamples ==
  {McDocError(S("test"), <<>>, InvalidIdentifierError(S("test")), "IoError",
              None, None)}
DependencySamples ==
  {McDocDependency(ResourceLocation("minecraft", "diamond"), S("item"),
                   S("auto-detected"), Some(S("test")), FALSE)}

\* ValidationResult::success(dependencies)
Success ==
  /\ pc = "ready"
  /\ steps < MaxSteps
  /\ \E dependencies \in SeqsUpTo(DependencySamples, 1) :
       /\ call' = [op |-> "success", dependencies |-> dependencies]
       /\ result' = ValidationResult_success(dependencies)
  /\ pc' = "done"
  /\ steps' = steps + 1
  /\ UNCHANGED <<parser, lexer, current_version, modules, resolved,
                 resolution_order, registries, outcome>>

\* result.add_error(error)
AddError ==
  /\ pc = "done"
  /\ steps < MaxSteps
  /\ \E error \in ErrorSamples :
       /\ call' = [op |-> "add_error", of |-> call.op]
       /\ result' = add_error(result, error)
  /\ steps' = steps + 1
  /\ UNCHANGED <<parser, lexer, current_version, modules, resolved,
                 resolution_order, registries, outcome, pc>>

\* result.add_dependency(dependency)
AddDependency ==
  /\ pc = "done"
  /\ steps < MaxSteps
  /\ \E dependency \in DependencySamples :
       /\ call' = [op |-> "add_dependency", of |-> call.op]
       /\ result' = add_dependency(result, dependency)
  /\ steps' = steps + 1
  /\ UNCHANGED <<parser, lexer, current_version, modules, resolved,
                 resolution_order, registries, outcome, pc>>

NextValidationResult ==
  \/ LoadRegistry
  \/ ValidateJson
  \/ Success
  \/ AddError
  \/ AddDependency

SpecValidationResult == Init /\ [][NextValidationResult]_vars

(***************************************************************************)
(* SpecRepeated: one validator validates documents again and again, and    *)
(* registries are loaded in between.  call.log holds the validations since *)
(* the last load and call.validations their number, call.ord the iteration *)
(* order of the map of the resolved modules, which no call changes.        *)
(***************************************************************************)
RepeatedDocumentSamples ==
  {JObj(<< <<S("item"), JStr(ResourceLocation("minecraft", "diamond"))>>,
           <<S("result"), JStr(ResourceLocation("minecraft", "unobtainium"))>> >>),
   JObj(<< <<S("result"), JStr(Tag("minecraft", "swords"))>> >>),
   JObj(<< <<S("item"), JInt(1)>> >>),
   JStr(ResourceLocation("minecraft", "diamond"))}
RepeatedResourceIdSamples ==
  {<<"minecraft", ":", "test", "/", "x">>, <<"a", ":", "b", ":", "c">>}

InitRepeated ==
  /\ \E schema \in SchemaSamples :
       /\ modules = schema
       /\ resolved = [m \in DOMAIN schema |-> ResolvedModule(m, schema[m], <<>>)]
       /\ resolution_order \in Orders(DOMAIN schema)
  /\ registries = <<>>
  /\ outcome = ResolveOk
  /\ \E ord \in Orders(DOMAIN resolved) :
       call = [op |-> "new", ord |-> ord, log |-> {}, validations |-> 0]
  /\ result = None
  /\ pc = "ready"
  /\ current_version = None
  /\ lexer = None
  /\ parser = None
  /\ steps = 0

\* load_registry(name, version, json), between validations
LoadRegistryBetween ==
  /\ steps < MaxSteps
  /\ \E name \in RegistryNameSamples, json \in RegistryJsonSamples :
       /\ registries' = add_registry(Registry_from_json(name, VersionSample, json))
       /\ call' = [op |-> "load_registry", name |-> name, ord |-> call.ord,
                   log |-> {}, validations |-> 0]
  /\ steps' = steps + 1
  /\ UNCHANGED <<parser, lexer, current_version, modules, resolved,
                 resolution_order, outcome, result, pc>>

\* validate_json(json, resource_id), any number of times
ValidateJsonRepeatedly ==
  /\ steps < MaxSteps
  /\ \E json \in RepeatedDocumentSamples,
        resource_id \in RepeatedResourceIdSamples :
       \E validated \in {validate_json(json, resource_id, call.ord)} :
         /\ result' = validated
         /\ call' = [op |-> "validate_json", json |-> json,
                     resource_id |-> resource_id, ord |-> call.ord,
                     log |-> call.log \cup {<<json, resource_id, validated>>},
                     validations |-> call.validations + 1]
  /\ steps' = steps + 1
  /\ UNCHANGED <<parser, lexer, current_version, modules, resolved,
                 resolution_order, registries, outcome, pc>>

NextRepeated == LoadRegistryBetween \/ ValidateJsonRepeatedly

SpecRepeated == InitRepeated /\ [][NextRepeated]_vars

(***************************************************************************)
(* SpecVersion: set_minecraft_version and validate_json on a schema whose  *)
(* fields carry #[since] and #[until] annotations                          *)
(***************************************************************************)
\* module "versioned": dispatch minecraft:resource[versioned] to struct {
\*   always: int, added: #[since="1.16"] int, removed: #[until="1.16"] int }
VersionedFile ==
  McDocFile(<<>>,
    <<DispatchDeclaration(S("resource"), <<Specific(S("versioned"))>>,
        Struct(<<FieldDeclaration(S("always"), Simple(S("int")), FALSE, <<>>),
                 FieldDeclaration(S("added"), Simple(S("int")), FALSE,
                   <<Annotation(S("since"),
                       AnnotationSimple(<<"1", ".", "16">>))>>),
                 FieldDeclaration(S("removed"), Simple(S("int")), FALSE,
                   <<Annotation(S("until"),
                       AnnotationSimple(<<"1", ".", "16">>))>>)>>))>>)
MinecraftVersionSamples ==
  {<<"1", ".", "15">>, <<"1", ".", "16">>, <<"1", ".", "20", ".", "5">>,
   S("1"), <<"1", ".", "x">>}
VersionedMembers(name) ==
  {<<>>, << <<name, JInt(1)>> >>, << <<name, JStr(S("x"))>> >>}
VersionedDocuments ==
  {JObj(a \o b \o c) :
     a \in VersionedMembers(S("always")), b \in VersionedMembers(S("added")),
     c \in VersionedMembers(S("removed"))}
VersionedResourceId == <<"minecraft", ":", "versioned", "/", "x">>

InitVersion ==
  /\ modules = (S("versioned") :> VersionedFile)
  /\ resolved =
       (S("versioned") :> ResolvedModule(S("versioned"), VersionedFile, <<>>))
  /\ resolution_order = <<S("versioned")>>
  /\ registries = <<>>
  /\ outcome = ResolveOk
  /\ call = [op |-> "new"]
  /\ result = NewValidationResult
  /\ pc = "ready"
  /\ current_version = None
  /\ lexer = None
  /\ parser = None
  /\ steps = 0

\* set_minecraft_version(version): a version that parses is stored; one
\* that does not returns an error and leaves the stored version alone.
SetMinecraftVersion ==
  /\ pc = "ready"
  /\ steps < MaxSteps
  /\ \E version \in MinecraftVersionSamples :
       LET parsed == MinecraftVersion_parse(version)
       IN /\ current_version' =
               IF parsed.some THEN Some(parsed.v) ELSE current_version
          /\ call' = [op |-> "set_minecraft_version", version |-> version,
                      ok |-> parsed.some]
  /\ steps' = steps + 1
  /\ UNCHANGED <<parser, lexer, modules, resolved, resolution_order, registries,
                 outcome, result, pc>>

\* validate_json(json, "minecraft:versioned/x")
ValidateVersioned ==
  /\ pc = "ready"
  /\ steps < MaxSteps
  /\ \E json \in VersionedDocuments :
       /\ call' = [op |-> "validate_json", json |-> json,
                   resource_id |-> VersionedResourceId,
                   ord |-> <<S("versioned")>>]
       /\ result' = validate_json(json, VersionedResourceId, <<S("versioned")>>)
  /\ pc' = "done"
  /\ steps' = steps + 1
  /\ UNCHANGED <<parser, lexer, current_version, modules, resolved,
                 resolution_order,
                 registries, outcome>>

NextVersion == SetMinecraftVersion \/ ValidateVersioned

SpecVersion == InitVersion /\ [][NextVersion]_vars

(***************************************************************************)
(* Lexer (src/src/lexer.rs).  The input is a sequence of one-character     *)
(* strings (ASCII, so a character is a byte).  The scanning operators take *)
(* the input and the offset of current_char; peek_char is the character    *)
(* behind it, and line and column follow from the offset.                  *)
(***************************************************************************)
Position(line, column, offset) ==
  [line |-> line, column |-> column, offset |-> offset]
TokenWithPos(token, position) == [token |-> token, position |-> position]

\* Token
TIdentifier(text) == [type |-> "Identifier", text |-> text]
TString(text) == [type |-> "String", text |-> text]
TNumber(value) == [type |-> "Number", value |-> value]
TBoolean(b) == [type |-> "Boolean", b |-> b]
TAnnotation(text) == [type |-> "Annotation", text |-> text]
Tok(type) == [type |-> type]

\* McDocParserError, the lexer errors
UnexpectedCharacter(ch, position) ==
  [kind |-> "UnexpectedCharacter", char |-> ch, line |-> position.line,
   column |-> position.column]
UnterminatedString(position) ==
  [kind |-> "UnterminatedString", line |-> position.line,
   column |-> position.column]
InvalidAnnotation(annotation, position) ==
  [kind |-> "InvalidAnnotation", annotation |-> annotation,
   line |-> position.line, column |-> position.column]

current_char(input, offset) ==
  IF offset < Len(input) THEN Some(input[offset + 1]) ELSE None
peek(input, offset) ==
  IF offset + 1 < Len(input) THEN Some(input[offset + 2]) ELSE None

\* Lexer::advance: one character further; at the end of the input nothing
\* moves.
advance(input, offset) == IF offset < Len(input) THEN offset + 1 ELSE offset

\* A variant of PositionAt whose line counts the newlines of the whole
\* input.
PositionAt_AllNewlines(input, offset) ==
  LET newlines == {i \in 1..offset : input[i] = "\n"}
      last == IF newlines = {} THEN 0
              ELSE CHOOSE i \in newlines : \A j \in newlines : j <= i
  IN Position(1 + Cardinality({i \in 1..Len(input) : input[i] = "\n"}),
              offset - last + 1, offset)

\* current_pos behind `offset` calls of advance: a newline adds one to the
\* line and sets the column to 1, any other character adds one to the
\* column.
PositionAt(input, offset) ==
  LET newlines == {i \in 1..offset : input[i] = "\n"}
      last == IF newlines = {} THEN 0
              ELSE CHOOSE i \in newlines : \A j \in newlines : j <= i
  IN Position(1 + Cardinality(newlines), offset - last + 1, offset)

\* Lexer::new
Lexer_new(input) == [input |-> input, current_pos |-> Position(1, 1, 0)]

\* &self.input[from..to]
Slice(input, from, to) == SubSeq(input, from + 1, to)

\* char::is_ascii_digit, char::is_alphabetic (ASCII letters),
\* char::is_alphanumeric
AsciiDigits == {"0", "1", "2", "3", "4", "5", "6", "7", "8", "9"}
Alphabetic ==
  {"a", "b", "c", "d", "e", "f", "g", "h", "i", "j", "k", "l", "m", "n", "o",
   "p", "q", "r", "s", "t", "u", "v", "w", "x", "y", "z", "A", "B", "C", "D",
   "E", "F", "G", "H", "I", "J", "K", "L", "M", "N", "O", "P", "Q", "R", "S",
   "T", "U", "V", "W", "X", "Y", "Z"}
is_ascii_digit(ch) == ch \in AsciiDigits
is_alphabetic(ch) == ch \in Alphabetic
is_alphanumeric(ch) == ch \in Alphabetic \cup AsciiDigits

\* The line comment loop: up to the newline, which is left in place.
RECURSIVE SkipLineComment(_, _)
SkipLineComment(input, offset) ==
  IF offset < Len(input) /\ input[offset + 1] # "\n"
  THEN SkipLineComment(input, offset + 1)
  ELSE offset

\* The block comment loop, entered behind the opening "/*" with depth 1.
RECURSIVE SkipBlockComment(_, _, _)
SkipBlockComment(input, offset, depth) ==
  IF depth > 0 /\ offset < Len(input)
  THEN IF input[offset + 1] = "/" /\ peek(input, offset) = Some("*")
       THEN SkipBlockComment(input, offset + 2, depth + 1)
       ELSE IF input[offset + 1] = "*" /\ peek(input, offset) = Some("/")
       THEN SkipBlockComment(input, offset + 2, depth - 1)
       ELSE SkipBlockComment(input, offset + 1, depth)
  ELSE [offset |-> offset, depth |-> depth]

\* skip_whitespace_and_comments: Ok(offset) or Err(error)
RECURSIVE skip_whitespace_and_comments(_, _)
skip_whitespace_and_comments(input, offset) ==
  LET ch == current_char(input, offset)
  IN IF ~ch.some THEN [ok |-> TRUE, offset |-> offset]
     ELSE IF ch.v \in {" ", "\t", "\r"}
     THEN skip_whitespace_and_comments(input, offset + 1)
     ELSE IF ch.v = "\n" THEN [ok |-> TRUE, offset |-> offset]
     ELSE IF ch.v = "/" /\ peek(input, offset) = Some("/")
     THEN skip_whitespace_and_comments(input, SkipLineComment(input, offset))
     ELSE IF ch.v = "/" /\ peek(input, offset) = Some("*")
     THEN LET comment == SkipBlockComment(input, offset + 2, 1)
          IN IF comment.depth > 0
             THEN [ok |-> FALSE,
                   err |-> UnterminatedString(PositionAt(input, comment.offset))]
             ELSE skip_whitespace_and_comments(input, comment.offset)
     ELSE [ok |-> TRUE, offset |-> offset]

\* read_identifier: the offset behind the last character of the identifier
RECURSIVE read_identifier(_, _)
read_identifier(input, offset) ==
  IF offset < Len(input)
     /\ (is_alphanumeric(input[offset + 1]) \/ input[offset + 1] = "_")
  THEN read_identifier(input, offset + 1)
  ELSE offset

RECURSIVE ReadDigits(_, _)
ReadDigits(input, offset) ==
  IF offset < Len(input) /\ is_ascii_digit(input[offset + 1])
  THEN ReadDigits(input, offset + 1)
  ELSE offset

\* An f64 given by decimal digits: digits / 10^scale, negated when neg;
\* trailing zeros of the fraction do not change the number.
DigitValue ==
  ("0" :> 0) @@ ("1" :> 1) @@ ("2" :> 2) @@ ("3" :> 3) @@ ("4" :> 4)
    @@ ("5" :> 5) @@ ("6" :> 6) @@ ("7" :> 7) @@ ("8" :> 8) @@ ("9" :> 9)
RECURSIVE Decimal(_, _, _)
Decimal(neg, digits, scale) ==
  IF scale > 0 /\ digits % 10 = 0
  THEN Decimal(neg, digits \div 10, scale - 1)
  ELSE [neg |-> neg, digits |-> digits, scale |-> scale]
RECURSIVE DigitsValue(_)
DigitsValue(str) ==
  IF str = <<>> THEN 0
  ELSE 10 * DigitsValue(SubSeq(str, 1, Len(str) - 1)) + DigitValue[str[Len(str)]]

\* str::parse::<f64> on what read_number slices: digits, then possibly "."
\* and digits.
parse_f64(number_str) ==
  LET dots == {i \in 1..Len(number_str) : number_str[i] = "."}
  IN IF dots = {}
     THEN Decimal(FALSE, DigitsValue(number_str), 0)
     ELSE LET dot == CHOOSE i \in dots : TRUE
          IN Decimal(FALSE,
                     DigitsValue(SubSeq(number_str, 1, dot - 1)
                                   \o SubSeq(number_str, dot + 1, Len(number_str))),
                     Len(number_str) - dot)

\* read_number: the integer part, then a fraction when "." is followed by a
\* digit; Ok(value, offset behind the number).
read_number(input, offset) ==
  LET int_end == ReadDigits(input, offset)
      end == IF current_char(input, int_end) = Some(".")
                /\ peek(input, int_end).some
                /\ is_ascii_digit(peek(input, int_end).v)
             THEN ReadDigits(input, int_end + 1)
             ELSE int_end
  IN [ok |-> TRUE, v |-> parse_f64(Slice(input, offset, end)), offset |-> end]

\* The loop of read_string, behind the opening quote at offset `start`:
\* Ok(content, offset behind the closing quote) or Err(error).
RECURSIVE ReadStringLoop(_, _, _)
ReadStringLoop(input, offset, start) ==
  LET ch == current_char(input, offset)
  IN IF ~ch.some
     THEN [ok |-> FALSE, err |-> UnterminatedString(PositionAt(input, start))]
     ELSE IF ch.v = "\""
     THEN [ok |-> TRUE, v |-> Slice(input, start + 1, offset),
           offset |-> offset + 1]
     ELSE IF ch.v = "\\"
     THEN ReadStringLoop(input, advance(input, offset + 1), start)
     ELSE IF ch.v = "\n"
     THEN [ok |-> FALSE, err |-> UnterminatedString(PositionAt(input, start))]
     ELSE ReadStringLoop(input, offset + 1, start)

read_string(input, offset) == ReadStringLoop(input, offset + 1, offset)

\* The loop of read_annotation, with "#" at offset `start`.
RECURSIVE ReadAnnotationLoop(_, _, _, _)
ReadAnnotationLoop(input, offset, depth, start) ==
  LET ch == current_char(input, offset)
  IN IF ~ch.some
     THEN [ok |-> FALSE,
           err |-> InvalidAnnotation(Slice(input, start, offset),
                                     PositionAt(input, start))]
     ELSE IF ch.v = "["
     THEN ReadAnnotationLoop(input, offset + 1, depth + 1, start)
     ELSE IF ch.v = "]"
     THEN IF depth - 1 = 0
          THEN [ok |-> TRUE, v |-> Slice(input, start, offset + 1),
                offset |-> offset + 1]
          ELSE ReadAnnotationLoop(input, offset + 1, depth - 1, start)
     ELSE ReadAnnotationLoop(input, offset + 1, depth, start)

read_annotation(input, offset) ==
  IF current_char(input, offset + 1) # Some("[")
  THEN [ok |-> FALSE,
        err |-> InvalidAnnotation(<<"#">>, PositionAt(input, offset))]
  ELSE ReadAnnotationLoop(input, offset + 1, 0, offset)

identifier_to_token(ident) ==
  IF ident = <<"u", "s", "e">> THEN Tok("Use")
  ELSE IF ident = <<"s", "t", "r", "u", "c", "t">> THEN Tok("Struct")
  ELSE IF ident = <<"e", "n", "u", "m">> THEN Tok("Enum")
  ELSE IF ident = <<"t", "y", "p", "e">> THEN Tok("Type")
  ELSE IF ident = <<"d", "i", "s", "p", "a", "t", "c", "h">> THEN Tok("Dispatch")
  ELSE IF ident = <<"t", "o">> THEN Tok("To")
  ELSE IF ident = <<"s", "u", "p", "e", "r">> THEN Tok("Super")
  ELSE IF ident = <<"t", "r", "u", "e">> THEN TBoolean(TRUE)
  ELSE IF ident = <<"f", "a", "l", "s", "e">> THEN TBoolean(FALSE)
  ELSE TIdentifier(ident)

\* The tokens of one character
SingleCharTokens ==
  ("\n" :> "Newline") @@ ("(" :> "LeftParen") @@ (")" :> "RightParen")
    @@ ("{" :> "LeftBrace") @@ ("}" :> "RightBrace") @@ ("[" :> "LeftBracket")
    @@ ("]" :> "RightBracket") @@ (":" :> "Colon") @@ (";" :> "Semicolon")
    @@ ("," :> "Comma") @@ ("?" :> "Question") @@ ("|" :> "Pipe")
    @@ ("@" :> "At") @@ ("%" :> "Percent") @@ ("=" :> "Equals")
    @@ ("." :> "Dot") @@ ("<" :> "LeftAngle") @@ (">" :> "RightAngle")

\* The match of next_token on current_char, behind the skipped whitespace
\* and comments: Ok(token, offset behind the token) or Err(error).
MatchToken(input, offset) ==
  LET ch == current_char(input, offset)
      token(t, after) == [ok |-> TRUE, token |-> t, offset |-> after]
  IN IF ~ch.some THEN token(Tok("Eof"), offset)
     ELSE IF ch.v = ":" /\ peek(input, offset) = Some(":")
     THEN token(Tok("DoubleColon"), offset + 2)
     ELSE IF ch.v = "#"
     THEN LET annotation == read_annotation(input, offset)
          IN IF annotation.ok
             THEN token(TAnnotation(annotation.v), annotation.offset)
             ELSE [ok |-> FALSE, err |-> annotation.err]
     ELSE IF ch.v = "." /\ peek(input, offset) = Some(".")
     THEN IF current_char(input, offset + 2) = Some(".")
          THEN token(Tok("DotDotDot"), offset + 3)
          ELSE token(Tok("DotDot"), offset + 2)
     ELSE IF ch.v \in DOMAIN SingleCharTokens
     THEN token(Tok(SingleCharTokens[ch.v]), offset + 1)
     ELSE IF ch.v = "\""
     THEN LET content == read_string(input, offset)
          IN IF content.ok THEN token(TString(content.v), content.offset)
             ELSE [ok |-> FALSE, err |-> content.err]
     ELSE IF is_ascii_digit(ch.v)
     THEN token(TNumber(read_number(input, offset).v),
                read_number(input, offset).offset)
     ELSE IF is_alphabetic(ch.v) \/ ch.v = "_"
     THEN token(identifier_to_token(
                  Slice(input, offset, read_identifier(input, offset))),
                read_identifier(input, offset))
     ELSE [ok |-> FALSE,
           err |-> UnexpectedCharacter(ch.v, PositionAt(input, offset))]

\* A variant of the token behind the skipped part that leaves the lexer
\* at a newline it returns.
TokenAt_NewlineStays(input, start) ==
  LET matched == MatchToken(input, start)
  IN IF ~matched.ok THEN matched
     ELSE [ok |-> TRUE,
           token |-> TokenWithPos(matched.token, PositionAt(input, start)),
           offset |-> IF matched.token.type = "Newline" THEN start
                      ELSE matched.offset]

\* next_token behind the skipped whitespace and comments: the token is
\* paired with the position it starts at.
TokenAt(input, start) ==
  LET matched == MatchToken(input, start)
  IN IF ~matched.ok THEN matched
     ELSE [ok |-> TRUE,
           token |-> TokenWithPos(matched.token, PositionAt(input, start)),
           offset |-> matched.offset]

\* next_token: Ok(TokenWithPos, offset behind the token) or Err(error)
next_token(input, offset) ==
  LET skipped == skip_whitespace_and_comments(input, offset)
  IN IF ~skipped.ok THEN [ok |-> FALSE, err |-> skipped.err]
     ELSE CHOOSE token \in {TokenAt(input, start) : start \in {skipped.offset}} :
            TRUE

\* The loop of tokenize: Ok(tokens) or Err(error)
RECURSIVE TokenizeLoop(_, _, _)
TokenizeLoop(input, offset, tokens) ==
  LET token == next_token(input, offset)
  IN IF ~token.ok THEN [ok |-> FALSE, err |-> token.err]
     ELSE IF token.token.token.type = "Eof"
     THEN [ok |-> TRUE, v |-> Append(tokens, token.token)]
     ELSE TokenizeLoop(input, token.offset, Append(tokens, token.token))

\* Lexer::new(input).tokenize()
tokenize(input) == TokenizeLoop(input, 0, <<>>)

(***************************************************************************)
(* SpecLexer: tokenize, one next_token per step                            *)
(***************************************************************************)
MaxPieces == 4      \* an input is made of at most this many pieces

\* The pieces the inputs are made of, and some longer inputs with strings,
\* annotations, keywords and white space.
Pieces ==
  {<<"/", "*">>, <<"*", "/">>, <<"/">>, <<"a">>, <<"1">>, <<"-">>, <<".">>,
   <<"\n">>}
RECURSIVE Concat(_)
Concat(pieces) ==
  IF pieces = <<>> THEN <<>> ELSE Head(pieces) \o Concat(Tail(pieces))
LongerInputs ==
  {<<"t", "o", " ", "\"", "a", "\"", "\t", "#", "[", "a", "[", "]", "]">>,
   <<"a", " ", "\"", "a", "\\", "\"", "\"", ":", ":", ":">>,
   <<"\"", "a">>, <<"\"", "a", "\n", "\"">>, <<"#", "a">>, <<"#", "[", "a">>,
   <<"a", " ", "/", "*", " ", "/", "*", "a", "*", "/", " ", "*", "/", " ", "1">>,
   <<"1", ".", ".", "1", " ", ".", ".", ".", "_", "a", "1", "?">>,
   <<"u", "s", "e", " ", "/", "/", " ", "a", "\n", "t", "r", "u", "e">>}
InputSamples ==
  {Concat(pieces) : pieces \in SeqsUpTo(Pieces, MaxPieces)} \cup LongerInputs

InitLexer ==
  /\ modules = <<>>
  /\ resolved = <<>>
  /\ resolution_order = <<>>
  /\ registries = <<>>
  /\ outcome = ResolveOk
  /\ current_version = None
  /\ lexer = None
  /\ parser = None
  /\ call = [op |-> "new"]
  /\ result = [ok |-> TRUE, v |-> <<>>]
  /\ pc = "ready"
  /\ steps = 0

\* Lexer::new(input), and the entry of tokenize: no token yet.
NewLexer ==
  /\ pc = "ready"
  /\ \E input \in InputSamples :
       /\ lexer' = Lexer_new(input)
       /\ call' = [op |-> "tokenize", input |-> input]
  /\ result' = [ok |-> TRUE, v |-> <<>>]
  /\ pc' = "lexing"
  /\ steps' = steps + 1
  /\ UNCHANGED <<parser, current_version, modules, resolved, resolution_order,
                 registries, outcome>>

\* One iteration of the loop of tokenize: an error ends the call, Eof is
\* pushed and ends the loop, any other token is pushed.
NextToken ==
  /\ pc = "lexing"
  /\ \E token \in {next_token(lexer.input, lexer.current_pos.offset)} :
       IF ~token.ok
       THEN /\ result' = [ok |-> FALSE, err |-> token.err]
            /\ pc' = "error"
            /\ UNCHANGED lexer
       ELSE /\ result' = [ok |-> TRUE, v |-> Append(result.v, token.token)]
            /\ lexer' = [lexer EXCEPT
                           !.current_pos = PositionAt(lexer.input, token.offset)]
            /\ pc' = IF token.token.token.type = "Eof" THEN "done" ELSE "lexing"
  /\ steps' = steps + 1
  /\ UNCHANGED <<parser, current_version, modules, resolved, resolution_order,
                 registries, outcome, call>>

NextLexer == NewLexer \/ NextToken

SpecLexer == InitLexer /\ [][NextLexer]_vars

\* tokenize is not interrupted: the loop goes on while it can.
SpecLexerFair == SpecLexer /\ WF_vars(NextToken)

(***************************************************************************)
(* Parser (src/src/parser.rs).  The operators take the token list and the  *)
(* index `current` (from 0) and give Ok(value, current) or Err(error).     *)
(***************************************************************************)
Parser_new(tokens) == [tokens |-> tokens, current |-> 0, errors |-> <<>>]

is_at_end(tokens, current) ==
  current >= Len(tokens) \/ tokens[current + 1].token.type = "Eof"

\* Parser::current_pos: the position of the current token, or the default
\* position behind the last token.
Parser_current_pos(tokens, current) ==
  IF current < Len(tokens) THEN tokens[current + 1].position
  ELSE Position(0, 0, 0)

syntax_error(tokens, current, expected, found) ==
  [kind |-> "Syntax", expected |-> expected, found |-> found,
   line |-> Parser_current_pos(tokens, current).line,
   column |-> Parser_current_pos(tokens, current).column]

current_token(tokens, current) ==
  IF current < Len(tokens) THEN [ok |-> TRUE, v |-> tokens[current + 1]]
  ELSE [ok |-> FALSE, err |-> syntax_error(tokens, current, "token", "EOF"),
           current |-> current]

check_token(tokens, current, type) ==
  ~is_at_end(tokens, current) /\ tokens[current + 1].token.type = type

\* Parser::advance
Parser_advance(tokens, current) ==
  IF is_at_end(tokens, current) THEN current ELSE current + 1

RECURSIVE skip_whitespace(_, _)
skip_whitespace(tokens, current) ==
  IF current < Len(tokens)
     /\ tokens[current + 1].token.type
          \in {"Whitespace", "Newline", "LineComment", "BlockComment"}
  THEN skip_whitespace(tokens, current + 1)
  ELSE current

consume(tokens, current, expected_token, error_msg) ==
  LET at == skip_whitespace(tokens, current)
  IN IF check_token(tokens, at, expected_token)
     THEN [ok |-> TRUE, current |-> Parser_advance(tokens, at)]
     ELSE [ok |-> FALSE,
           err |-> syntax_error(tokens, at, error_msg,
                                current_token(tokens, at).v.token),
           current |-> at]

\* The keywords current_identifier accepts as names.
KeywordNames ==
  ("Type" :> <<"t", "y", "p", "e">>)
    @@ ("Struct" :> <<"s", "t", "r", "u", "c", "t">>)
    @@ ("Enum" :> <<"e", "n", "u", "m">>)
    @@ ("Dispatch" :> <<"d", "i", "s", "p", "a", "t", "c", "h">>)
    @@ ("Use" :> <<"u", "s", "e">>) @@ ("To" :> <<"t", "o">>)
    @@ ("Super" :> <<"s", "u", "p", "e", "r">>)
    @@ ("True" :> <<"t", "r", "u", "e">>)
    @@ ("False" :> <<"f", "a", "l", "s", "e">>)

current_identifier(tokens, current) ==
  LET at == skip_whitespace(tokens, current)
      token == current_token(tokens, at)
  IN IF ~token.ok THEN token
     ELSE IF token.v.token.type = "Identifier"
     THEN [ok |-> TRUE, v |-> token.v.token.text,
           current |-> Parser_advance(tokens, at)]
     ELSE IF token.v.token.type \in DOMAIN KeywordNames
     THEN [ok |-> TRUE, v |-> KeywordNames[token.v.token.type],
           current |-> Parser_advance(tokens, at)]
     ELSE [ok |-> FALSE,
           err |-> syntax_error(tokens, at, "identifier", token.v.token),
           current |-> at]

\* current_identifier_or_special: an identifier, a keyword, or "%" and an
\* identifier, whose name is returned without the "%".
current_identifier_or_special(tokens, current) ==
  LET at == skip_whitespace(tokens, current)
      token == current_token(tokens, at)
      after == Parser_advance(tokens, at)
      next_token_ == current_token(tokens, after)
  IN IF ~token.ok THEN token
     ELSE IF token.v.token.type = "Identifier"
     THEN [ok |-> TRUE, v |-> token.v.token.text, current |-> after]
     ELSE IF token.v.token.type = "Percent"
     THEN IF ~next_token_.ok
          THEN [ok |-> FALSE,
                err |-> syntax_error(tokens, after, "identifier after %",
                                     "end of input"),
           current |-> after]
          ELSE IF next_token_.v.token.type = "Identifier"
          THEN [ok |-> TRUE, v |-> next_token_.v.token.text,
                current |-> Parser_advance(tokens, after)]
          ELSE [ok |-> FALSE,
                err |-> syntax_error(tokens, after, "identifier after %",
                                     next_token_.v.token),
           current |-> after]
     ELSE IF token.v.token.type \in DOMAIN KeywordNames
     THEN [ok |-> TRUE, v |-> KeywordNames[token.v.token.type],
           current |-> after]
     ELSE [ok |-> FALSE,
           err |-> syntax_error(tokens, at, "identifier or special pattern",
                                token.v.token),
           current |-> at]

\* The value of a LET of the source: the one element of {value}.
The(values) == CHOOSE value \in values : TRUE

\* parse_annotations: the annotation tokens at `current` are passed (their
\* contents are not kept by parse_single_type).
RECURSIVE SkipAnnotations(_, _)
SkipAnnotations(tokens, current) ==
  IF current < Len(tokens) /\ tokens[current + 1].token.type = "Annotation"
  THEN SkipAnnotations(tokens, Parser_advance(tokens, current))
  ELSE current

\* A form of type expression the model does not cover (constraints behind
\* "@", references, generic arguments, structs, spreads, literals).
NotModelled == [ok |-> FALSE, err |-> [kind |-> "NotModelled"]]

\* "[" "]" behind a type: the array of that type, constraints None.
ArraySuffix(tokens, type_expr, current) ==
  IF ~check_token(tokens, current, "LeftBracket")
  THEN [ok |-> TRUE, v |-> type_expr, current |-> current]
  ELSE The({
    IF ~closed.ok THEN closed
    ELSE IF check_token(tokens, closed.current, "At") THEN NotModelled
    ELSE [ok |-> TRUE, v |-> Array(type_expr, None), current |-> closed.current]
    : closed \in {consume(tokens, Parser_advance(tokens, current),
                          "RightBracket",
                          "Expected ']' after type in array declaration")}})

RECURSIVE parse_single_type(_, _)
RECURSIVE ParseUnionLoop(_, _, _)
RECURSIVE parse_type_expression(_, _)

\* parse_single_type: an identifier (with "[" "]" behind it), "[" type "]",
\* or "(" type expression ")".
parse_single_type(tokens, current) ==
  The({The({
    IF ~token.ok THEN token
    ELSE IF token.v.token.type = "Identifier"
    THEN IF \E type \in {"Colon", "LeftAngle"} :
              check_token(tokens, Parser_advance(tokens, at), type)
         THEN NotModelled
         ELSE ArraySuffix(tokens, Simple(token.v.token.text),
                          Parser_advance(tokens, at))
    ELSE IF token.v.token.type = "LeftBracket"
    THEN The({
      IF ~element_type.ok THEN element_type
      ELSE IF check_token(tokens, element_type.current, "At") THEN NotModelled
      ELSE The({
        IF ~closed.ok THEN closed
        ELSE IF check_token(tokens, closed.current, "At") THEN NotModelled
        ELSE [ok |-> TRUE, v |-> Array(element_type.v, None),
              current |-> closed.current]
        : closed \in {consume(tokens, element_type.current, "RightBracket",
                              "Expected ']' after array element type")}})
      : element_type \in {parse_single_type(tokens,
                                            Parser_advance(tokens, at))}})
    ELSE IF token.v.token.type = "LeftParen"
    THEN The({
      IF ~type_expr.ok THEN type_expr
      ELSE The({
        IF ~closed.ok THEN closed
        ELSE [ok |-> TRUE, v |-> type_expr.v, current |-> closed.current]
        : closed \in {consume(tokens, type_expr.current, "RightParen",
                              "Expected ')' after parenthesized type")}})
      : type_expr \in {parse_type_expression(tokens,
                                             Parser_advance(tokens, at))}})
    ELSE IF token.v.token.type
              \in {"DotDotDot", "Struct", "String", "Number", "True", "False"}
    THEN NotModelled
    ELSE [ok |-> FALSE,
          err |-> syntax_error(tokens, at, "type", token.v.token),
           current |-> at]
    : token \in {current_token(tokens, at)}})
    : at \in {skip_whitespace(tokens,
                SkipAnnotations(tokens, skip_whitespace(tokens, current)))}})

\* The tokens at which the loop over the members of a union stops behind
\* a "|".
UnionClosers == {"RightParen", "RightBrace", "Comma"}

\* The loop of parse_type_expression behind a "|": `types` are the members
\* read so far.
ParseUnionLoop(tokens, current, types) ==
  The({
    IF (\E closer \in UnionClosers : check_token(tokens, at, closer))
       \/ is_at_end(tokens, at)
    THEN [ok |-> TRUE, v |-> Union(types), current |-> at]
    ELSE The({
      IF ~member.ok THEN member
      ELSE The({
        IF check_token(tokens, after, "Pipe")
        THEN ParseUnionLoop(tokens, Parser_advance(tokens, after),
                        Append(types, member.v))
        ELSE [ok |-> TRUE, v |-> Union(Append(types, member.v)),
              current |-> after]
        : after \in {skip_whitespace(tokens, member.current)}})
      : member \in {parse_single_type(tokens, at)}})
    : at \in {skip_whitespace(tokens, current)}})

\* parse_type_expression: a single type, "[" "]" behind it, and the union
\* of it with the types behind "|".
parse_type_expression(tokens, current) ==
  The({
    IF ~single.ok THEN single
    ELSE IF check_token(tokens, single.current, "At") THEN NotModelled
    ELSE The({
      IF ~type_expr.ok THEN type_expr
      ELSE IF check_token(tokens, type_expr.current, "Pipe")
      THEN ParseUnionLoop(tokens, Parser_advance(tokens, type_expr.current),
                      <<type_expr.v>>)
      ELSE type_expr
      : type_expr \in {ArraySuffix(tokens, single.v, single.current)}})
    : single \in {parse_single_type(tokens, current)}})

\* One key of a dispatch source, at `current`: an identifier or a string
\* is passed, "%" is read with its identifier.
DispatchKey(tokens, current) ==
  The({IF ~token.ok THEN token
       ELSE IF token.v.token.type \in {"Identifier", "String"}
       THEN [ok |-> TRUE, v |-> token.v.token.text,
             current |-> Parser_advance(tokens, current)]
       ELSE IF token.v.token.type = "Percent"
       THEN current_identifier_or_special(tokens, current)
       ELSE [ok |-> FALSE,
             err |-> syntax_error(tokens, current,
                                  "identifier, string, or % pattern",
                                  token.v.token),
           current |-> current]
       : token \in {current_token(tokens, current)}})

\* The loop over the further keys: each is read and dropped.
RECURSIVE SkipAdditionalTargets(_, _)
SkipAdditionalTargets(tokens, current) ==
  IF check_token(tokens, current, "Comma")
  THEN The({IF ~key.ok THEN key
            ELSE SkipAdditionalTargets(tokens,
                                       skip_whitespace(tokens, key.current))
            : key \in {DispatchKey(tokens,
                         skip_whitespace(tokens,
                                         Parser_advance(tokens, current)))}})
  ELSE [ok |-> TRUE, current |-> current]

\* The key part of a dispatch source: "[" key {"," key} "]", or nothing.
DispatchSourceKey(tokens, current) ==
  IF ~check_token(tokens, current, "LeftBracket")
  THEN [ok |-> TRUE, v |-> None, current |-> current]
  ELSE The({
    IF ~key_name.ok THEN key_name
    ELSE The({
      IF ~others.ok THEN others
      ELSE The({
        IF ~closed.ok THEN closed
        ELSE [ok |-> TRUE, v |-> Some(key_name.v), current |-> closed.current]
        : closed \in {consume(tokens, skip_whitespace(tokens, others.current),
                              "RightBracket", "Expected ']'")}})
      : others \in {SkipAdditionalTargets(tokens, key_name.current)}})
    : key_name \in {DispatchKey(tokens,
                      skip_whitespace(tokens,
                                      Parser_advance(tokens, current)))}})

\* The DispatchDeclaration parse_dispatch_declaration returns: the source's
\* registry is the identifier before ":", the identifier behind it is
\* dropped, and targets is empty.
ParsedDispatch(registry, path, key, target_type) ==
  DispatchDeclaration(registry, <<>>, target_type) @@ [key |-> key]

\* parse_dispatch_declaration: each `?` returns the error of its step.
parse_dispatch_declaration(tokens, current) ==
  The({
    IF ~dispatch.ok THEN dispatch
    ELSE The({
      IF ~registry.ok THEN registry
      ELSE The({
        IF ~colon.ok THEN colon
        ELSE The({
          IF ~path.ok THEN path
          ELSE The({
            IF ~key.ok THEN key
            ELSE The({
              IF ~to.ok THEN to
              ELSE The({
                IF ~target_type.ok THEN target_type
                ELSE [ok |-> TRUE,
                      v |-> ParsedDispatch(registry.v, path.v, key.v,
                                           target_type.v),
                      current |-> target_type.current]
                : target_type \in {parse_type_expression(tokens, to.current)}})
              : to \in {consume(tokens, key.current, "To", "Expected 'to'")}})
            : key \in {DispatchSourceKey(tokens, path.current)}})
          : path \in {current_identifier(tokens, colon.current)}})
        : colon \in {consume(tokens, registry.current, "Colon",
                             "Expected ':'")}})
      : registry \in {current_identifier(tokens, dispatch.current)}})
    : dispatch \in {consume(tokens, current, "Dispatch",
                            "Expected 'dispatch'")}})

\* The loop of parse_import_path over the segments behind "::".
RECURSIVE ImportSegments(_, _, _)
ImportSegments(tokens, current, segments) ==
  The({
    IF ~segment.ok THEN segment
    ELSE IF check_token(tokens, segment.current, "DoubleColon")
    THEN ImportSegments(tokens, Parser_advance(tokens, segment.current),
                        Append(segments, segment.v))
    ELSE [ok |-> TRUE, v |-> Append(segments, segment.v),
          current |-> segment.current]
    : segment \in {current_identifier(tokens, current)}})

\* parse_import_path: "::" or "super" "::" or nothing, and the segments.
parse_import_path(tokens, current) ==
  The({
    IF check_token(tokens, at, "Super")
    THEN The({
      IF ~colons.ok THEN colons
      ELSE The({
        IF ~segments.ok THEN segments
        ELSE [segments EXCEPT !.v = Relative(segments.v)]
        : segments \in {ImportSegments(tokens, colons.current, <<>>)}})
      : colons \in {consume(tokens, Parser_advance(tokens, at), "DoubleColon",
                            "Expected '::' after 'super'")}})
    ELSE The({
      IF ~segments.ok THEN segments
      ELSE [segments EXCEPT !.v = Absolute(segments.v)]
      : segments \in {ImportSegments(tokens,
                        IF check_token(tokens, at, "DoubleColon")
                        THEN Parser_advance(tokens, at) ELSE at,
                        <<>>)}})
    : at \in {skip_whitespace(tokens, current)}})

\* parse_import
parse_import(tokens, current) ==
  The({
    IF ~use.ok THEN use
    ELSE The({
      IF ~path.ok THEN path ELSE [path EXCEPT !.v = Import(path.v)]
      : path \in {parse_import_path(tokens, use.current)}})
    : use \in {consume(tokens, current, "Use", "Expected 'use'")}})

\* parse_type_declaration, of a type without generic parameters.
parse_type_declaration(tokens, current) ==
  The({
    IF ~type.ok THEN type
    ELSE The({
      IF ~name.ok THEN name
      ELSE IF check_token(tokens, name.current, "LeftAngle") THEN NotModelled
      ELSE The({
        IF ~equal.ok THEN equal
        ELSE The({
          IF ~type_expr.ok THEN type_expr
          ELSE [type_expr EXCEPT !.v = TypeDeclaration(name.v, type_expr.v)]
          : type_expr \in {parse_type_expression(tokens, equal.current)}})
        : equal \in {consume(tokens, name.current, "Equals",
                             "Expected '=' after type name")}})
      : name \in {current_identifier(tokens, type.current)}})
    : type \in {consume(tokens, current, "Type", "Expected 'type'")}})

\* The tokens a declaration or an import begins with.
DeclarationKeywords == {"Struct", "Enum", "Type", "Dispatch", "Use"}

\* The loop of synchronize: to the next newline or declaration keyword.
RECURSIVE SynchronizeLoop(_, _)
SynchronizeLoop(tokens, current) ==
  IF is_at_end(tokens, current) THEN current
  ELSE IF check_token(tokens, current, "Newline") THEN current
  ELSE IF tokens[current + 1].token.type \in DeclarationKeywords THEN current
  ELSE SynchronizeLoop(tokens, Parser_advance(tokens, current))

\* synchronize: the current token is passed, then the loop.
synchronize(tokens, current) ==
  SynchronizeLoop(tokens, Parser_advance(tokens, current))

\* parse_declaration: Ok(Some(declaration)), Ok(None) or Err(error), the
\* position behind it, and the errors it pushed on self.errors itself.
parse_declaration(tokens, current) ==
  The({The({
    IF is_at_end(tokens, at)
    THEN [ok |-> TRUE, v |-> None, current |-> at, pushed |-> <<>>]
    ELSE IF token.type \in {"Struct", "Enum"} THEN NotModelled
    ELSE IF token.type = "Type"
    THEN The({
      IF ~declaration.ok THEN declaration
      ELSE [ok |-> TRUE, v |-> Some(declaration.v),
            current |-> declaration.current, pushed |-> <<>>]
      : declaration \in {parse_type_declaration(tokens, at)}})
    ELSE IF token.type = "Dispatch"
    THEN The({
      IF ~declaration.ok THEN declaration
      ELSE [ok |-> TRUE, v |-> Some(declaration.v),
            current |-> declaration.current, pushed |-> <<>>]
      : declaration \in {parse_dispatch_declaration(tokens, at)}})
    ELSE IF SkipAnnotations(tokens, current) = current
    THEN [ok |-> TRUE, v |-> None, current |-> synchronize(tokens, at),
          pushed |-> <<syntax_error(tokens, at, "declaration keyword", token)>>]
    ELSE [ok |-> FALSE,
          err |-> syntax_error(tokens, at, "declaration keyword",
                               "annotations only"),
          current |-> at]
    : token \in {tokens[at + 1].token}})
    : at \in {skip_whitespace(tokens, SkipAnnotations(tokens, current))}})

\* ";" behind an import or a declaration is passed.
SkipSemicolon(tokens, current) ==
  IF check_token(tokens, current, "Semicolon")
  THEN Parser_advance(tokens, current) ELSE current

\* The loop of parse over the imports and declarations of the file.
RECURSIVE ParseLoop(_, _, _, _, _)
ParseLoop(tokens, current, imports, declarations, errors) ==
  IF is_at_end(tokens, current)
  THEN [imports |-> imports, declarations |-> declarations,
        errors |-> errors, current |-> current]
  ELSE IF tokens[current + 1].token.type = "Use"
  THEN The({
    IF import.ok
    THEN ParseLoop(tokens,
                   skip_whitespace(tokens,
                                   SkipSemicolon(tokens, import.current)),
                   Append(imports, import.v), declarations, errors)
    ELSE ParseLoop(tokens,
                   skip_whitespace(tokens,
                                   synchronize(tokens, import.current)),
                   imports, declarations, Append(errors, import.err))
    : import \in {parse_import(tokens, current)}})
  ELSE The({
    IF ~declaration.ok
    THEN ParseLoop(tokens,
                   skip_whitespace(tokens,
                                   synchronize(tokens, declaration.current)),
                   imports, declarations, Append(errors, declaration.err))
    ELSE IF declaration.v.some
    THEN ParseLoop(tokens,
                   skip_whitespace(tokens,
                                   SkipSemicolon(tokens, declaration.current)),
                   imports, Append(declarations, declaration.v.v),
                   errors \o declaration.pushed)
    ELSE ParseLoop(tokens,
                   skip_whitespace(tokens,
                                   Parser_advance(tokens, declaration.current)),
                   imports, declarations, errors \o declaration.pushed)
    : declaration \in {parse_declaration(tokens, current)}})

\* parse: Ok(McDocFile) when no error was collected, else Err(errors); the
\* parser is left behind the last token read, with self.errors taken.
parse(tokens, current) ==
  The({
    IF parsed.errors = <<>>
    THEN [ok |-> TRUE, v |-> McDocFile(parsed.imports, parsed.declarations),
          current |-> parsed.current]
    ELSE [ok |-> FALSE, err |-> parsed.errors, current |-> parsed.current]
    : parsed \in {ParseLoop(tokens, skip_whitespace(tokens, current),
                            <<>>, <<>>, <<>>)}})

(***************************************************************************)
(* SpecParser: a dispatch declaration is tokenized and parsed              *)
(***************************************************************************)
MaxKeys == 3        \* a dispatch source lists at most this many keys

DispatchWord == <<"d", "i", "s", "p", "a", "t", "c", "h">>
NamespaceSamples == {<<"m", "c">>}
RegistrySamples == {<<"r", "e", "g">>, <<"r">>}
TypeNameSamples == {<<"T">>, <<"s", "t", "r", "i", "n", "g">>}

\* A key as it is written, and the name it gives.
DispatchKeySamples ==
  {[text |-> <<"a">>, name |-> <<"a">>, unknown |-> FALSE],
   [text |-> <<"b", "1">>, name |-> <<"b", "1">>, unknown |-> FALSE],
   [text |-> <<"\"", "c", "\"">>, name |-> <<"c">>, unknown |-> FALSE],
   [text |-> <<"%", "u", "n", "k", "n", "o", "w", "n">>,
    name |-> <<"u", "n", "k", "n", "o", "w", "n">>, unknown |-> TRUE]}
SeparatorSamples == {<<",">>, <<",", " ", "\n">>}

RECURSIVE KeysText(_, _)
KeysText(keys, separator) ==
  IF Len(keys) = 1 THEN keys[1].text
  ELSE keys[1].text \o separator \o KeysText(Tail(keys), separator)

\* dispatch ns:reg[k1, ..., kn] to T
DispatchText(ns, reg, keys, separator, type) ==
  DispatchWord \o <<" ">> \o ns \o <<":">> \o reg \o <<"[">>
    \o KeysText(keys, separator) \o <<"]", " ", "t", "o", " ">> \o type

KeyLists == SeqsUpTo(DispatchKeySamples, MaxKeys) \ {<<>>}

InitParser ==
  /\ modules = <<>>
  /\ resolved = <<>>
  /\ resolution_order = <<>>
  /\ registries = <<>>
  /\ outcome = ResolveOk
  /\ current_version = None
  /\ lexer = None
  /\ parser = None
  /\ call = [op |-> "new"]
  /\ result = [ok |-> TRUE, v |-> <<>>]
  /\ pc = "ready"
  /\ steps = 0

\* Lexer::new(input).tokenize() and Parser::new(tokens)
NewParser ==
  /\ pc = "ready"
  /\ \E ns \in NamespaceSamples, reg \in RegistrySamples, keys \in KeyLists,
        separator \in SeparatorSamples, type \in TypeNameSamples :
       \E input \in {DispatchText(ns, reg, keys, separator, type)} :
         \E tokens \in {tokenize(input)} :
           /\ tokens.ok
           /\ lexer' = Lexer_new(input)
           /\ parser' = Parser_new(tokens.v)
           /\ call' = [op |-> "parse_dispatch_declaration", input |-> input,
                       ns |-> ns, reg |-> reg, keys |-> keys, type |-> type]
  /\ pc' = "parsing"
  /\ steps' = steps + 1
  /\ UNCHANGED <<current_version, modules, resolved, resolution_order,
                 registries, outcome, result>>

\* parse_dispatch_declaration(annotations, pos)
ParseDispatchDeclaration ==
  /\ pc = "parsing"
  /\ \E parsed \in {parse_dispatch_declaration(parser.tokens, parser.current)} :
       /\ result' = IF parsed.ok THEN [ok |-> TRUE, v |-> parsed.v]
                    ELSE [ok |-> FALSE, err |-> parsed.err]
       /\ parser' = [parser EXCEPT !.current = parsed.current]
  /\ pc' = "done"
  /\ steps' = steps + 1
  /\ UNCHANGED <<current_version, lexer, modules, resolved, resolution_order,
                 registries, outcome, call>>

MaxMembers == 3     \* a union is written with at most this many members

\* A member of a union as it is written, and the type it stands for.
MemberTypeSamples ==
  {[text |-> <<"a">>, type |-> Simple(<<"a">>)],
   [text |-> <<"[", "b", "]">>, type |-> Array(Simple(<<"b">>), None)],
   [text |-> <<"c", "[", "]">>, type |-> Array(Simple(<<"c">>), None)],
   [text |-> <<"(", "d", ")">>, type |-> Simple(<<"d">>)],
   [text |-> <<"#", "[", "s", "]", "\n", "e">>, type |-> Simple(<<"e">>)]}
PipeSamples == {<<" ", "|", " ">>, <<" ", "|", "\n">>}

\* What stands behind the union: nothing, or one of these characters.
CloserSamples == {<<>>, <<")">>, <<"}">>, <<"]">>, <<",">>, <<"\n", ")">>}

RECURSIVE MembersText(_, _)
MembersText(members, pipe) ==
  IF Len(members) = 1 THEN members[1].text
  ELSE members[1].text \o pipe \o MembersText(Tail(members), pipe)

\* m1 | ... | mn, a trailing "|" or none, and the closer
UnionText(members, pipe, trailing, closer) ==
  MembersText(members, pipe) \o (IF trailing THEN pipe ELSE <<>>) \o closer

MemberLists == SeqsUpTo(MemberTypeSamples, MaxMembers) \ {<<>>}

\* Lexer::new(input).tokenize() and Parser::new(tokens), on a union
NewTypeParser ==
  /\ pc = "ready"
  /\ \E members \in MemberLists, pipe \in PipeSamples, trailing \in BOOLEAN,
        closer \in CloserSamples :
       \E input \in {UnionText(members, pipe, trailing, closer)} :
         \E tokens \in {tokenize(input)} :
           /\ tokens.ok
           /\ lexer' = Lexer_new(input)
           /\ parser' = Parser_new(tokens.v)
           /\ call' = [op |-> "parse_type_expression", input |-> input,
                       members |-> members, trailing |-> trailing,
                       closer |-> closer]
  /\ pc' = "parsing_type"
  /\ steps' = steps + 1
  /\ UNCHANGED <<current_version, modules, resolved, resolution_order,
                 registries, outcome, result>>

\* parse_type_expression()
ParseTypeExpression ==
  /\ pc = "parsing_type"
  /\ \E parsed \in {parse_type_expression(parser.tokens, parser.current)} :
       /\ result' = IF parsed.ok THEN [ok |-> TRUE, v |-> parsed.v]
                    ELSE [ok |-> FALSE, err |-> parsed.err]
       /\ parser' = [parser EXCEPT !.current = parsed.current]
  /\ pc' = "done"
  /\ steps' = steps + 1
  /\ UNCHANGED <<current_version, lexer, modules, resolved, resolution_order,
                 registries, outcome, call>>

MaxFollowing == 2   \* declarations behind the malformed construct

\* Well-formed imports and declarations.
WellFormedSamples ==
  {<<"t", "y", "p", "e", " ", "B", " ", "=", " ", "a">>,
   <<"t", "y", "p", "e", " ", "C", " ", "=", " ", "(", "a", " ", "|", " ",
     "[", "b", "]", " ", "|", ")">>,
   <<"d", "i", "s", "p", "a", "t", "c", "h", " ", "m", ":", "r", "[", "a",
     "]", " ", "t", "o", " ", "T">>,
   <<"u", "s", "e", " ", ":", ":", "a", ":", ":", "b">>}

\* Top-level constructs with one syntax error each; the empty text is the
\* file without a malformed construct.
MalformedSamples ==
  {<<>>,
   <<"x">>,
   <<"x", " ", "y">>,
   <<"=", " ", "a">>,
   <<"t", "y", "p", "e", " ", "A">>,
   <<"d", "i", "s", "p", "a", "t", "c", "h", " ", "m">>,
   <<"#", "[", "s", "]", " ", "x">>}

RECURSIVE Lines(_)
Lines(texts) ==
  IF Len(texts) = 1 THEN texts[1]
  ELSE texts[1] \o <<"\n">> \o Lines(Tail(texts))

\* The malformed construct, a space or a newline, and the declarations
FileText(malformed, separator, following) ==
  (IF malformed = <<>> THEN <<>> ELSE malformed \o separator)
    \o Lines(following)

FollowingLists == SeqsUpTo(WellFormedSamples, MaxFollowing) \ {<<>>}

\* Lexer::new(input).tokenize() and Parser::new(tokens), on a file
NewFileParser ==
  /\ pc = "ready"
  /\ \E malformed \in MalformedSamples, separator \in {<<" ">>, <<"\n">>},
        following \in FollowingLists :
       \E input \in {FileText(malformed, separator, following)} :
         \E tokens \in {tokenize(input)} :
           /\ tokens.ok
           /\ lexer' = Lexer_new(input)
           /\ parser' = Parser_new(tokens.v)
           /\ call' = [op |-> "parse", input |-> input,
                       malformed |-> malformed, separator |-> separator,
                       following |-> following]
  /\ pc' = "parsing_file"
  /\ steps' = steps + 1
  /\ UNCHANGED <<current_version, modules, resolved, resolution_order,
                 registries, outcome, result>>

\* parse()
Parse ==
  /\ pc = "parsing_file"
  /\ \E parsed \in {parse(parser.tokens, parser.current)} :
       /\ result' = IF parsed.ok THEN [ok |-> TRUE, v |-> parsed.v]
                    ELSE [ok |-> FALSE, err |-> parsed.err]
       /\ parser' = [parser EXCEPT !.current = parsed.current]
  /\ pc' = "done"
  /\ steps' = steps + 1
  /\ UNCHANGED <<current_version, lexer, modules, resolved, resolution_order,
                 registries, outcome, call>>

NextParser ==
  \/ NewParser
  \/ ParseDispatchDeclaration
  \/ NewTypeParser
  \/ ParseTypeExpression
  \/ NewFileParser
  \/ Parse

SpecParser == InitParser /\ [][NextParser]_vars

(***************************************************************************)
(* Claims about validate_json_against_structure (SpecStructure)            *)
(***************************************************************************)
\* The concatenation of a sequence of sequences.
RECURSIVE Flatten(_)
Flatten(ss) == IF Len(ss) = 0 THEN <<>> ELSE ss[1] \o Flatten(Tail(ss))

\* What validating the called JSON against type t at path p returns.
Errors(json, t, p) == validate_json_against_structure(json, t, p, call.ord)

\* C1: a value validated against Union(ts) is accepted with no error as soon
\* as one branch accepts it; when every branch rejects it, exactly one error
\* is returned, the union's own at the union's path, and none of the
\* branches' errors.
C1_UnionFirstSuccessOrOneError ==
  (pc = "done" /\ call.type_expr.kind = "Union") =>
    LET ts == call.type_expr.variants
    IN IF \E i \in 1..Len(ts) : Errors(call.json, ts[i], call.path) = <<>>
       THEN result = <<>>
       ELSE result = <<NoVariantError(call.path)>>

\* C1's case: a union whose first branch rejects the value with something
\* other than the union error and whose second branch accepts it.
C1_Witness ==
  /\ pc = "done" /\ call.type_expr.kind = "Union"
  /\ Len(call.type_expr.variants) = 2
  /\ Errors(call.json, call.type_expr.variants[1], call.path) # <<>>
  /\ Errors(call.json, call.type_expr.variants[2], call.path) = <<>>
  /\ result = <<>>

\* C2: an object validated against a Struct gets, field by field in
\* declaration order, one "missing" error for an absent non-optional field,
\* nothing for an absent optional field, and every error of the value of a
\* present field; no field is skipped after a failure.
C2_StructChecksEveryField ==
  (pc = "done" /\ call.type_expr.kind = "Struct" /\ is_object(call.json)) =>
    LET fs == call.type_expr.fields
        value(i) == ObjGet(call.json, fs[i].name)
        part(i) ==
          IF value(i).some
          THEN Errors(value(i).v, fs[i].field_type, Append(call.path, fs[i].name))
          ELSE IF fs[i].optional THEN <<>>
               ELSE <<MissingFieldError(fs[i].name, call.path)>>
    IN result = Flatten([i \in 1..Len(fs) |-> part(i)])

\* C2's case: the first declared field is required and absent, the second is
\* present with a value of the wrong type: both errors are reported.
C2_Witness ==
  /\ pc = "done" /\ call.type_expr.kind = "Struct" /\ is_object(call.json)
  /\ Len(call.type_expr.fields) = 2
  /\ ~call.type_expr.fields[1].optional
  /\ ~ObjGet(call.json, call.type_expr.fields[1].name).some
  /\ ObjGet(call.json, call.type_expr.fields[2].name).some
  /\ Len(result) = 2
  /\ result[1].kind = "MissingField" /\ result[2].kind = "ExpectedType"

\* C3: a value validates against Array{elem, c} exactly when it is an array
\* whose length respects c.min and c.max where set and whose elements all
\* validate against elem; a length violation is one error at the array's
\* path; the errors of element i are those of validating it at the array's
\* path extended with "[i]".
C3_ArrayRule ==
  (pc = "done" /\ call.type_expr.kind = "Array") =>
    LET c == call.type_expr.constraints
        elem == call.type_expr.element_type
        n == Len(call.json.items)
        lenOk == \/ ~c.some
                 \/ /\ (c.v.min.some => n >= c.v.min.v)
                    /\ (c.v.max.some => n <= c.v.max.v)
        at(i) == Append(call.path, <<"[">> \o UsizeToString(i) \o <<"]">>)
        part(i) == Errors(call.json.items[i + 1], elem, at(i))
    IN /\ (result = <<>>) <=>
            (is_array(call.json) /\ lenOk /\ \A i \in 0..(n - 1) : part(i) = <<>>)
       /\ (is_array(call.json) /\ ~lenOk) =>
            /\ Len(result) = 1
            /\ result[1].kind \in {"ArrayTooShort", "ArrayTooLong"}
            /\ result[1].path = PathString(call.path)
            /\ result[1].len = n
       /\ (is_array(call.json) /\ lenOk) =>
            result = Flatten([i \in 1..n |-> part(i - 1)])

\* C3's case: an array of admissible length whose first element validates
\* and whose second does not: the one error is at path "...[1]".
C3_Witness ==
  /\ pc = "done" /\ call.type_expr.kind = "Array" /\ is_array(call.json)
  /\ call.type_expr.constraints.some
  /\ call.type_expr.constraints.v.max.some
  /\ Len(call.json.items) = 2
  /\ Len(result) = 1
  /\ result[1].kind = "ExpectedType"
  /\ result[1].path = PathString(Append(call.path, <<"[", "1", "]">>))


\* The sequence with x inserted after its first k elements.
InsertAt(seq, k, x) == SubSeq(seq, 1, k) \o <<x>> \o SubSeq(seq, k + 1, Len(seq))

\* C14: a value that validates against a union validates against the union
\* extended with one more branch, wherever the branch is inserted.
C14_UnionMonotone ==
  (pc = "done" /\ call.type_expr.kind = "Union" /\ result = <<>>)
    => \A branch \in TBranches \cup TInner :
         \A k \in 0..Len(call.type_expr.variants) :
           Errors(call.json,
                  Union(InsertAt(call.type_expr.variants, k, branch)),
                  call.path) = <<>>

\* A value validated against a union of two variants through the second.
C14_Witness ==
  /\ pc = "done"
  /\ call.type_expr.kind = "Union"
  /\ Len(call.type_expr.variants) = 2
  /\ result = <<>>
  /\ Errors(call.json, call.type_expr.variants[1], call.path) # <<>>

(***************************************************************************)
(* Claims about resolve_all (SpecResolver)                                 *)
(***************************************************************************)
\* The paths the added module m imports.
ImportsOf(m) ==
  {ImportPaths(m, modules[m])[i] : i \in 1..Len(modules[m].imports)}

\* The paths reachable from the paths in front by following imports.
RECURSIVE ImportClosure(_)
ImportClosure(front) ==
  LET next == front \cup UNION {ImportsOf(m) : m \in front \cap DOMAIN modules}
  IN IF next = front THEN front ELSE ImportClosure(next)

\* The paths m depends on, directly or through other modules.
DependenciesOf(m) == ImportClosure(ImportsOf(m))

HasCycle == \E m \in DOMAIN modules : m \in DependenciesOf(m)

\* The imported paths for which no module was added.
MissingImports ==
  UNION {ImportsOf(m) : m \in DOMAIN modules} \ DOMAIN modules

IndexIn(order, m) == CHOOSE i \in 1..Len(order) : order[i] = m

IsTopologicalSort(order) ==
  /\ Len(order) = Cardinality(DOMAIN modules)
  /\ {order[i] : i \in 1..Len(order)} = DOMAIN modules
  /\ \A m \in DOMAIN modules : \A d \in ImportsOf(m) :
       /\ d \in DOMAIN modules
       /\ IndexIn(order, d) < IndexIn(order, m)

IsImportCycle(cycle) ==
  /\ Len(cycle) > 0
  /\ cycle[1] = cycle[Len(cycle)]
  /\ \A i \in 1..(Len(cycle) - 1) :
       /\ cycle[i] \in DOMAIN modules
       /\ cycle[i + 1] \in ImportsOf(cycle[i])

\* C7: when resolve_all succeeds, the resolution order holds every added
\* module exactly once and every module comes after each module it imports.
C7_ResolutionOrderIsTopological ==
  (call.op = "resolve_all" /\ outcome.kind = "ok")
    => IsTopologicalSort(resolution_order)

\* resolve_all succeeded on three modules, one of which imports the two
\* others, one of which imports the third.
C7_Witness ==
  /\ call.op = "resolve_all"
  /\ outcome.kind = "ok"
  /\ Cardinality(DOMAIN modules) = 3
  /\ \E m \in DOMAIN modules : Cardinality(ImportsOf(m)) = 2
  /\ \E m \in DOMAIN modules : Cardinality(ImportsOf(m)) = 1

C9_MissingImportBlocksOnlyDependents ==
  (call.op = "resolve_all" /\ MissingImports # {} /\ ~HasCycle)
    => /\ outcome.kind = "ModuleNotFound"
       /\ outcome.module \in MissingImports
       /\ outcome.from \in DOMAIN modules
       /\ outcome.module \in ImportsOf(outcome.from)
       /\ outcome.from \notin DOMAIN resolved
       /\ \A m \in DOMAIN modules :
            (DependenciesOf(m) \cap MissingImports = {})
              => m \in DOMAIN resolved

(***************************************************************************)
(* Claims about dispatch lookup (SpecLookup)                               *)
(***************************************************************************)
\* The dispatch declarations of the resolved modules.
AllDispatches ==
  UNION {{resolved[m].file.declarations[i] :
            i \in {k \in 1..Len(resolved[m].file.declarations) :
                     resolved[m].file.declarations[k].kind = "Dispatch"}} :
         m \in DOMAIN resolved}

\* The dispatches of a registry that list key as a specific target.
DispatchesListing(registry, key) ==
  {d \in AllDispatches :
     /\ d.registry = registry
     /\ \E i \in 1..Len(d.targets) :
          d.targets[i].specific /\ d.targets[i].name = key}

\* The %unknown dispatches of a registry.
UnknownDispatches(registry) ==
  {d \in AllDispatches :
     /\ d.registry = registry
     /\ \E i \in 1..Len(d.targets) : ~d.targets[i].specific}

\* What the lookup of the last call returns when the modules are visited
\* in the order ord.
LookupUnder(ord) ==
  IF call.op = "find_dispatch_target"
  THEN LET found == find_dispatch_target(S("minecraft"), call.key, ord)
       IN IF found.some THEN Some(found.v.target_type) ELSE None
  ELSE resolve_spread_target(Cat(S("minecraft"), Cat(S(":"), call.registry)),
                             call.key, ord)

\* C10: where at most one dispatch of the registry lists the key and at
\* most one is its %unknown dispatch, a lookup for (registry, key) returns
\* the target type of the dispatch listing the key when there is one, a
\* returned type is that of the %unknown dispatch only when there is none,
\* and the result is the same for every order of visiting the modules.
C10_LookupPrefersSpecificTarget ==
  (/\ pc = "done"
   /\ call.op \in {"find_dispatch_target", "resolve_spread_target"}
   /\ Cardinality(DispatchesListing(call.registry, call.key)) <= 1
   /\ Cardinality(UnknownDispatches(call.registry)) <= 1)
    => /\ \A d \in DispatchesListing(call.registry, call.key) :
            result = Some(d.target_type)
       /\ (result.some /\ DispatchesListing(call.registry, call.key) = {})
            => \E d \in UnknownDispatches(call.registry) :
                 result = Some(d.target_type)
       /\ \A ord \in Orders(DOMAIN resolved) : LookupUnder(ord) = result

(***************************************************************************)
(* Claims about validate_json (Spec)                                       *)
(***************************************************************************)
Validated == pc = "done" /\ call.op = "validate_json"

\* The resource type of the validated document.
CallResourceType ==
  parse_resource_identifier(
    ResourceId_to_string(ResourceId_parse(call.resource_id).v)).resource_type

\* The dispatch found for the validated document.
CallDispatch == find_dispatch_target(S("minecraft"), CallResourceType, call.ord)

\* The registry an #[id] annotation names: #[id="r"] or #[id(registry="r")].
IdRegistries(field) ==
  {field.annotations[i].data.value :
     i \in {k \in 1..Len(field.annotations) :
              /\ field.annotations[k].name = S("id")
              /\ field.annotations[k].data.kind = "Simple"}}
  \cup
  {field.annotations[i].data.params[S("registry")] :
     i \in {k \in 1..Len(field.annotations) :
              /\ field.annotations[k].name = S("id")
              /\ field.annotations[k].data.kind = "Complex"
              /\ S("registry") \in DOMAIN field.annotations[k].data.params}}

IsMember(registry, resource_location, is_tag) ==
  IF is_tag
  THEN \/ resource_location \in DOMAIN registry.tags
       \/ /\ StartsWithChar(resource_location, "#")
          /\ Tail(resource_location) \in DOMAIN registry.tags
  ELSE \/ resource_location \in registry.entries
       \/ /\ StartsWithMinecraft(resource_location)
          /\ Tail(Tail(resource_location)) \in registry.entries
       \/ /\ ~ContainsChar(resource_location, ":")
          /\ <<"minecraft", ":">> \o resource_location \in registry.entries

\* The dependencies of the result whose registry is loaded and does not
\* hold them.
FailingDependencies ==
  SelectSeq(result.dependencies,
    LAMBDA d : /\ d.registry_type \in DOMAIN registries
               /\ ~IsMember(registries[d.registry_type], d.resource_location,
                            d.is_tag))

\* The errors of the result that report a resource missing from a registry.
RegistryErrors ==
  SelectSeq(result.errors,
    LAMBDA e : e.message.kind \in {"ResourceNotFound", "InvalidRegistry"})

\* C5: after validate_json the result holds, in order, one "not found in
\* registry" error for every dependency whose registry is loaded and does
\* not hold the resource, is_valid is false when there is one, and no such
\* error exists for any other dependency (a registry not loaded adds none).
C5_RegistryCrossCheck ==
  Validated =>
    /\ Len(RegistryErrors) = Len(FailingDependencies)
    /\ \A i \in 1..Len(RegistryErrors) :
         /\ RegistryErrors[i].message
              = ResourceNotFoundMessage(FailingDependencies[i].resource_location,
                                        FailingDependencies[i].registry_type)
         /\ RegistryErrors[i].path = FailingDependencies[i].source_path
    /\ (Len(FailingDependencies) > 0 => ~result.is_valid)

\* A validated document with a dependency missing from its loaded registry,
\* one found in its loaded registry and one whose registry is not loaded.
C5_Witness ==
  /\ Validated
  /\ Len(FailingDependencies) > 0
  /\ \E i \in 1..Len(result.dependencies) :
       /\ result.dependencies[i].registry_type \in DOMAIN registries
       /\ IsMember(registries[result.dependencies[i].registry_type],
                   result.dependencies[i].resource_location,
                   result.dependencies[i].is_tag)
  /\ \E i \in 1..Len(result.dependencies) :
       result.dependencies[i].registry_type \notin DOMAIN registries

NoDispatchMatches ==
  \A m \in DOMAIN resolved :
    \A i \in 1..Len(resolved[m].file.declarations) :
      resolved[m].file.declarations[i].kind = "Dispatch"
        => ~dispatch_matches(resolved[m].file.declarations[i], S("minecraft"),
                             CallResourceType)

\* C6: when the resource id is well formed and no dispatch declaration
\* matches its resource type, validate_json returns is_valid = false with a
\* "no dispatch found for resource type" error, and the dependencies of the
\* result are those found by scanning the document.
C6_NoDispatchStillScans ==
  (Validated /\ ResourceId_parse(call.resource_id).ok /\ NoDispatchMatches)
    => /\ ~result.is_valid
       /\ \E i \in 1..Len(result.errors) :
            result.errors[i].message = NoDispatchError(CallResourceType)
       /\ LET scanned == scan_required_registries(call.json)
          IN /\ Len(result.dependencies) = Len(scanned)
             /\ \A i \in 1..Len(scanned) :
                  /\ result.dependencies[i].resource_location
                       = scanned[i].identifier
                  /\ result.dependencies[i].registry_type = scanned[i].registry
                  /\ result.dependencies[i].is_tag = scanned[i].is_tag

\* A document with two scanned dependencies was validated while no
\* dispatch matched its resource type.
C6_Witness ==
  /\ Validated
  /\ ResourceId_parse(call.resource_id).ok
  /\ NoDispatchMatches
  /\ DOMAIN resolved # {}
  /\ Len(result.dependencies) = 2

(***************************************************************************)
(* Claims about DatapackResult (SpecDatapackResult)                        *)
(***************************************************************************)
\* The number of added results that were valid.
ValidAdded == Cardinality({i \in 1..Len(call.added) : call.added[i].is_valid})

\* C11: after any sequence of add_file_result calls, total_files is the
\* number of calls and valid_files the number of calls whose result had
\* is_valid = true; so valid_files <= total_files, and valid_files <
\* total_files exactly when some added result was invalid.
C11_FileCounters ==
  /\ result.total_files = Len(call.added)
  /\ result.valid_files = ValidAdded
  /\ result.valid_files <= result.total_files
  /\ (result.valid_files < result.total_files)
       <=> (\E i \in 1..Len(call.added) : ~call.added[i].is_valid)

\* Three results were added, valid and invalid ones among them.
C11_Witness ==
  /\ call.op = "add_file_result"
  /\ Len(call.added) = 3
  /\ \E i, j \in 1..3 : call.added[i].is_valid /\ ~call.added[j].is_valid

(***************************************************************************)
(* Claims about analyze_datapack (SpecDatapack)                            *)
(***************************************************************************)
Analyzed == pc = "done" /\ call.op = "analyze_datapack"

\* Whether the bytes of the file at path are valid JSON.
Parses(path) == from_slice(call.files[path]).ok

\* What validate_json returns for the parsed document at path.
Validation(path) ==
  validate_json(from_slice(call.files[path]).v,
                extract_resource_id_from_path(path), call.ord)

\* The errors the aggregate records under a file path, in order.
ErrorsUnder(path) ==
  LET under == SelectSeq(result.errors, LAMBDA fe : fe.file_path = path)
  IN [i \in 1..Len(under) |-> under[i].error]

\* The dependencies of the documents that parse, in list order.
RECURSIVE ParsedDependencies(_)
ParsedDependencies(i) ==
  IF i > Len(call.json_files) THEN <<>>
  ELSE (IF Parses(call.json_files[i])
        THEN Validation(call.json_files[i]).dependencies ELSE <<>>)
       \o ParsedDependencies(i + 1)

\* C12: in analyze_datapack a document whose bytes are not valid JSON is
\* counted in total_files and not in valid_files, has exactly one error (a
\* JSON error) recorded under its path and adds no dependency; every other
\* document is validated, its errors recorded under its path.
C12_InvalidJsonIsOneError ==
  Analyzed =>
    /\ result.total_files = Len(call.json_files)
    /\ result.valid_files =
         Cardinality({i \in 1..Len(call.json_files) :
                        /\ Parses(call.json_files[i])
                        /\ Validation(call.json_files[i]).is_valid})
    /\ result.dependencies
         = GroupDependencies(<<>>, ParsedDependencies(1), 1)
    /\ \A i \in 1..Len(call.json_files) :
         LET path == call.json_files[i]
         IN IF Parses(path)
            THEN ErrorsUnder(path) = Validation(path).errors
            ELSE /\ Len(ErrorsUnder(path)) = 1
                 /\ ErrorsUnder(path)[1].error_type = "JsonError"
                 /\ ErrorsUnder(path)[1].file = path

\* A datapack with a document that is not JSON, processed before a document
\* that validates with errors and dependencies, was analyzed.
C12_Witness ==
  /\ Analyzed
  /\ \E i, j \in 1..Len(call.json_files) :
       /\ i < j
       /\ ~Parses(call.json_files[i])
       /\ Parses(call.json_files[j])
       /\ Len(Validation(call.json_files[j]).errors) > 0
       /\ Len(Validation(call.json_files[j]).dependencies) > 0

\* What serial processing computes for one file.
SerialFileResult(path) ==
  IF Parses(path) THEN Validation(path)
  ELSE ValidationResult_failure(
         <<McDocError(path, <<>>,
                      JsonParseErrorMessage(from_slice(call.files[path]).err),
                      "JsonError", None, None)>>)

\* What serial processing aggregates for the files i.. of the list.
RECURSIVE SerialDatapack(_, _)
SerialDatapack(datapack, i) ==
  IF i > Len(call.json_files) THEN datapack
  ELSE SerialDatapack(
         add_file_result(datapack, call.json_files[i],
                         SerialFileResult(call.json_files[i])),
         i + 1)

\* C13: whatever the order in which the documents were processed, the
\* aggregate has the total_files, the valid_files and the set of (file,
\* error) pairs of serial processing, and the errors of each document
\* appear in the order the validator emitted them.
C13_ScheduleIndependent ==
  Analyzed =>
    LET serial == SerialDatapack(DatapackResult_new, 1)
    IN /\ result.total_files = serial.total_files
       /\ result.valid_files = serial.valid_files
       /\ {result.errors[i] : i \in 1..Len(result.errors)}
            = {serial.errors[i] : i \in 1..Len(serial.errors)}
       /\ \A i \in 1..Len(call.json_files) :
            ErrorsUnder(call.json_files[i])
              = SerialFileResult(call.json_files[i]).errors

\* Three documents, one of them with two errors, were processed in an
\* order other than the list order.
C13_Witness ==
  /\ Analyzed
  /\ Len(call.json_files) = 3
  /\ call.schedule # <<1, 2, 3>>
  /\ \E i \in 1..3 : Len(ErrorsUnder(call.json_files[i])) >= 2
(***************************************************************************)
(* Claims about version filtering (SpecVersion)                            *)
(***************************************************************************)
\* The version a #[since="V"] or #[until="V"] annotation of the field names.
AnnotatedVersions(field, name) ==
  {MinecraftVersion_parse(field.annotations[i].data.value).v :
     i \in {k \in 1..Len(field.annotations) :
              /\ field.annotations[k].name = S(name)
              /\ field.annotations[k].data.kind = "Simple"
              /\ MinecraftVersion_parse(field.annotations[k].data.value).some}}

\* The field is absent under the version: the version is lower than a
\* #[since] of the field, or at least an #[until] of it.
FilteredOut(field, version) ==
  /\ version.some
  /\ \/ \E v \in AnnotatedVersions(field, "since") : ~is_at_least(version.v, v)
     \/ \E v \in AnnotatedVersions(field, "until") : is_at_least(version.v, v)

\* The structural errors of a validation result, in order.
StructuralErrors(res) ==
  LET structural == SelectSeq(res.errors, LAMBDA e : e.line = Some(0))
  IN [i \in 1..Len(structural) |-> structural[i].message]

Tokenized == pc = "done"
TokenTypes(tokens) == [i \in 1..Len(tokens) |-> tokens[i].token.type]
EofCount(tokens) == Cardinality({i \in 1..Len(tokens) : tokens[i].token.type = "Eof"})

\* C16: tokenize terminates on every input; a returned token list holds
\* exactly one Eof token, the last element; every next_token call that
\* returns a token other than Eof consumes at least one character.
C16_TokenizeTerminates ==
  /\ (pc = "lexing") ~> (pc \in {"done", "error"})
  /\ [](Tokenized =>
          /\ EofCount(result.v) = 1
          /\ result.v[Len(result.v)].token.type = "Eof")
  /\ [][(pc = "lexing" /\ pc' = "lexing") =>
          lexer'.current_pos.offset > lexer.current_pos.offset]_vars

\* A token list of two tokens and Eof is returned.
C16_Witness == Tokenized /\ Len(result.v) = 3

\* A numeric literal: an optional "-", digits, and possibly "." and digits.
IsUnsignedLiteral(str) ==
  /\ str # <<>>
  /\ \A i \in 1..Len(str) : str[i] \in AsciiDigits \cup {"."}
  /\ Cardinality({i \in 1..Len(str) : str[i] = "."}) <= 1
  /\ str[1] # "." /\ str[Len(str)] # "."
IsNumericLiteral(str) ==
  \/ IsUnsignedLiteral(str)
  \/ str # <<>> /\ str[1] = "-" /\ IsUnsignedLiteral(Tail(str))

\* The number a numeric literal denotes.
LiteralValue(str) ==
  IF str[1] = "-"
  THEN [parse_f64(Tail(str)) EXCEPT !.neg = TRUE]
  ELSE parse_f64(str)

\* C17: for a numeric literal N, with or without a leading "-", the lexer
\* yields exactly one Number token, whose value is N: the literal is not
\* rejected and is not a minus sign followed by a number.
C17_NumericLiteralIsOneNumber ==
  (pc \in {"done", "error"} /\ IsNumericLiteral(call.input))
    => /\ Tokenized
       /\ TokenTypes(result.v) = <<"Number", "Eof">>
       /\ result.v[1].token.value = LiteralValue(call.input)

\* The offset behind the "*/" that closes a block comment, scanning from
\* `offset` at nesting depth `depth`: "/*" opens a level, "*/" closes one;
\* None when the input ends first.
RECURSIVE CommentClose(_, _, _)
CommentClose(str, offset, depth) ==
  IF depth = 0 THEN Some(offset)
  ELSE IF offset + 1 >= Len(str) THEN None
  ELSE IF str[offset + 1] = "/" /\ str[offset + 2] = "*"
  THEN CommentClose(str, offset + 2, depth + 1)
  ELSE IF str[offset + 1] = "*" /\ str[offset + 2] = "/"
  THEN CommentClose(str, offset + 2, depth - 1)
  ELSE CommentClose(str, offset + 1, depth)

StartsWithComment(str) == Len(str) >= 2 /\ str[1] = "/" /\ str[2] = "*"

\* The tokens of a token list without their positions.
Tokens(tokens) == [i \in 1..Len(tokens) |-> tokens[i].token]

\* What a finished call of tokenize returned, without positions: the
\* tokens, or the kind of the error.
Returned(res) ==
  IF res.ok THEN [ok |-> TRUE, tokens |-> Tokens(res.v)]
  ELSE [ok |-> FALSE, kind |-> res.err.kind]

\* The comment at the start of the input ends at the "*/" that brings the
\* depth back to zero and gives no token: tokenize returns what it returns
\* for the text behind the comment.
CommentIsSkipped ==
  (pc \in {"done", "error"} /\ StartsWithComment(call.input)
     /\ CommentClose(call.input, 2, 1).some)
    => Returned(result) =
         Returned(tokenize(SubSeq(call.input,
                                  CommentClose(call.input, 2, 1).v + 1,
                                  Len(call.input))))

\* C18: block comments nest: a comment opened by "/*" ends only at the
\* "*/" that brings the nesting depth back to zero, no token is emitted for
\* the comment text, and when the input ends at a positive depth tokenize
\* returns an unterminated block comment error.
C18_BlockCommentsNest ==
  /\ CommentIsSkipped
  /\ (pc \in {"done", "error"} /\ StartsWithComment(call.input)
        /\ ~CommentClose(call.input, 2, 1).some)
       => /\ pc = "error"
          /\ result.err.kind = "UnterminatedBlockComment"

\* The tokens before Eof that successive calls of next_token return, up to
\* Eof or the first error, and the offsets behind them.
RECURSIVE Yielded(_, _, _)
Yielded(input, offset, tokens) ==
  LET token == next_token(input, offset)
  IN IF ~token.ok \/ token.token.token.type = "Eof" THEN tokens
     ELSE Yielded(input, token.offset, Append(tokens, token.token))
RECURSIVE TokenEnds(_, _, _)
TokenEnds(input, offset, ends) ==
  LET token == next_token(input, offset)
  IN IF ~token.ok \/ token.token.token.type = "Eof" THEN ends
     ELSE TokenEnds(input, token.offset, Append(ends, token.offset))

Prefix(str, n) == SubSeq(str, 1, n)
IsPrefixOf(s, t) == Len(s) <= Len(t) /\ s = SubSeq(t, 1, Len(s))

\* The tokens of the input that are complete within its first n
\* characters.
CompleteTokens(input, n) ==
  LET ends == TokenEnds(input, 0, <<>>)
      complete == {i \in 1..Len(ends) : ends[i] <= n}
  IN SubSeq(Yielded(input, 0, <<>>), 1, Cardinality(complete))

ExpectedTargets(keys) ==
  [i \in 1..Len(keys) |->
     IF keys[i].unknown THEN Unknown ELSE Specific(keys[i].name)]

\* C20: parsing `dispatch ns:reg[k1, ..., kn] to T` gives a
\* DispatchDeclaration whose source registry is reg and whose targets are
\* the n keys in source order: Specific(ki) for an identifier or a string,
\* Unknown for %unknown.
C20_DispatchTargetsParsed ==
  (pc = "done" /\ call.op = "parse_dispatch_declaration")
    => /\ result.ok
       /\ result.v.registry = call.reg
       /\ result.v.targets = ExpectedTargets(call.keys)

\* The types the members of the written union stand for, in order.
WrittenTypes(members) == [i \in 1..Len(members) |-> members[i].type]

\* The union was written with a trailing "|" directly before one of the
\* given closers (end of input is the empty closer).
TrailingPipeBefore(closers) ==
  /\ pc = "done"
  /\ call.op = "parse_type_expression"
  /\ call.trailing
  /\ call.closer \in closers

\* The parse gave the union of exactly the written types.
ParsedWrittenUnion ==
  result.ok /\ result.v = Union(WrittenTypes(call.members))

\* C21: a union written with a trailing "|" directly before ")", "}", "]"
\* or the end of input parses without error into the Union of exactly the
\* types written, in order, with no member for the trailing pipe.
C21_TrailingPipeIsPermitted ==
  TrailingPipeBefore({<<")">>, <<"}">>, <<"]">>, <<>>}) => ParsedWrittenUnion

\* parse has returned for a file that begins with one malformed construct.
ParsedMalformedFile ==
  pc = "done" /\ call.op = "parse" /\ call.malformed # <<>>

\* C23: one malformed top-level construct followed by well-formed
\* declarations gives exactly one error: the parser resumes at the next
\* declaration keyword without skipping it, and the tokens of the
\* following declarations give no further error.
C23_OneErrorPerMalformedConstruct ==
  ParsedMalformedFile => ~result.ok /\ Len(result.err) = 1

(***************************************************************************)
(* Claims about import paths (SpecImports)                                 *)
(***************************************************************************)
\* The parent of a module path: its parts but the last.
ParentParts(module_path) ==
  SubSeq(Split(module_path, "/"), 1, Len(Split(module_path, "/")) - 1)

\* The segments of an import but its last, the referenced name.
ModuleSegments(import_path) ==
  SubSeq(import_path.segments, 1, Len(import_path.segments) - 1)

\* resolve_all has succeeded: the edges of the dependency graph are the
\* dependencies recorded with the resolved modules.
ImportsResolved == call.op = "resolve_all" /\ outcome = ResolveOk

\* The i-th import of resolved module m is absolute / relative.
IsImport(m, i, abs) ==
  /\ m \in DOMAIN resolved
  /\ i \in 1..Len(resolved[m].file.imports)
  /\ resolved[m].file.imports[i].path.abs = abs

\* C22 as stated: the dependency edge of an absolute import ::a::b::C goes
\* to module a/b, the last segment being the referenced name, and a
\* relative import super::a::C is resolved against the parent of the
\* importing module's path.
C22_LastSegmentIsReferencedName ==
  ImportsResolved =>
    \A m \in DOMAIN resolved : \A i \in 1..Len(resolved[m].file.imports) :
      LET path == resolved[m].file.imports[i].path
      IN resolved[m].dependencies[i] =
           IF path.abs THEN PathOf(ModuleSegments(path))
           ELSE PathOf(ParentParts(m) \o ModuleSegments(path))

\* C22 (amended): the dependency edge of an absolute import ::a::b::C goes
\* to module a/b/C, all its segments joined by "/", and that of a relative
\* import super::a::C to the parent of the importing module's path
\* followed by a/C; each is a module that was added.
C22_AllSegmentsAreTheModulePath ==
  ImportsResolved =>
    \A m \in DOMAIN resolved : \A i \in 1..Len(resolved[m].file.imports) :
      LET path == resolved[m].file.imports[i].path
      IN /\ resolved[m].dependencies[i] =
              IF path.abs THEN PathOf(path.segments)
              ELSE PathOf(ParentParts(m) \o path.segments)
         /\ resolved[m].dependencies[i] \in DOMAIN modules

C22_Witness ==
  /\ ImportsResolved
  /\ \E m \in DOMAIN resolved :
       /\ IsImport(m, 1, TRUE)
       /\ IsImport(m, 2, FALSE)
       /\ resolved[m].dependencies[2] = PathOf(<<S("x"), S("a"), S("C")>>)

(***************************************************************************)
(* Claims about ValidationResult (SpecValidationResult)                    *)
(***************************************************************************)
\* C24: in the ValidationResult of validate_json, and after any add_error
\* and add_dependency calls on it or on a ValidationResult::success,
\* is_valid is true exactly when the errors list is empty.
C24_ValidIffNoErrors == result.is_valid <=> (result.errors = <<>>)

C24_Witness ==
  /\ call.op = "add_dependency"
  /\ call.of = "add_error"
  /\ ~result.is_valid
  /\ Len(result.errors) >= 2

(***************************************************************************)
(* Claims about the state resolve_all leaves (SpecResolver)                *)
(***************************************************************************)
\* The number of places of module m in the order.
Occurrences(order, m) == Cardinality({i \in 1..Len(order) : order[i] = m})

\* C25: after resolve_all succeeds every added module has a resolved
\* entry, the resolution order holds each added module exactly once and
\* nothing else, and the dependencies of each resolved module are the
\* resolved paths of the imports of its file, in order.
C25_ResolveAllResolvesEveryModule ==
  (call.op = "resolve_all" /\ outcome = ResolveOk)
    => /\ DOMAIN modules \subseteq DOMAIN resolved
       /\ \A m \in DOMAIN modules : Occurrences(resolution_order, m) = 1
       /\ \A i \in 1..Len(resolution_order) :
            resolution_order[i] \in DOMAIN modules
       /\ \A m \in DOMAIN resolved :
            /\ Len(resolved[m].dependencies) = Len(resolved[m].file.imports)
            /\ \A i \in 1..Len(resolved[m].file.imports) :
                 resolved[m].dependencies[i] =
                   resolve_import_path(m, resolved[m].file.imports[i].path)

\* resolve_all succeeded on three modules, one of them with two imports.
C25_Witness ==
  /\ call.op = "resolve_all"
  /\ outcome = ResolveOk
  /\ Cardinality(DOMAIN resolved) = 3
  /\ \E m \in DOMAIN resolved : Len(resolved[m].dependencies) = 2

\* C26: when resolve_all fails, with a missing module or a circular
\* dependency, no module is newly marked resolved and the stored
\* resolution order is as it was before the call.
C26_FailedResolveAllChangesNothing ==
  [][(call'.op = "resolve_all" /\ outcome' # ResolveOk /\ steps' = steps + 1)
       => /\ resolved' = resolved
          /\ resolution_order' = resolution_order]_vars

\* resolve_all has failed with a circular dependency after an earlier
\* success, whose modules and order are still stored.
C26_Witness ==
  /\ call.op = "resolve_all"
  /\ outcome.kind = "CircularDependency"
  /\ resolution_order # <<>>
  /\ resolved # <<>>

\* C27: after add_module and successful resolve_all calls,
\* get_resolved_module(p) is the file most recently added under p, with
\* its dependencies: a module added again under a resolved path and
\* resolved again replaces the resolved file.
C27_ResolvedIsMostRecentlyAdded ==
  (call.op = "resolve_all" /\ outcome = ResolveOk)
    => \A p \in DOMAIN resolved :
         /\ resolved[p].file = modules[p]
         /\ resolved[p].dependencies = ImportPaths(p, modules[p])

(***************************************************************************)
(* Claims about the registries (SpecRegistry)                              *)
(***************************************************************************)
\* The keys of the object member `key` of a registry JSON.
KeysOf(json, key) ==
  LET object == ObjGet(json, key).v
  IN {object.members[i][1] : i \in 1..Len(object.members)}

\* The ids the tags of a registry JSON list as members.
TagMembersOf(json) ==
  LET tags == ObjGet(json, S("tags")).v.members
  IN UNION {{tags[i][2].items[k].s : k \in 1..Len(tags[i][2].items)} :
              i \in 1..Len(tags)}

\* The step is a load_registry_from_json call.
LoadStep == call'.op = "load_registry_from_json" /\ steps' = steps + 1

\* C28: loading a registry under a name loaded before replaces the earlier
\* registry: the membership queries for the name answer from the entries
\* and tags of the last load only, and the registries under other names
\* are unchanged.
C28_ReloadReplacesRegistry ==
  [][LoadStep =>
       /\ \A id \in LocationSamples :
            /\ contains(registries[call.name], id)'
                 <=> id \in KeysOf(call'.json, S("entries"))
            /\ contains_tag(registries[call.name], id)'
                 <=> id \in KeysOf(call'.json, S("tags"))
       /\ \A name \in DOMAIN registries \ {call'.name} :
            registries'[name] = registries[name]]_vars

\* A registry that held diamond, as a query found, was loaded again
\* without entries, the only name loaded.
C28_Witness ==
  /\ call.op = "load_registry_from_json"
  /\ steps = 3
  /\ Cardinality(DOMAIN registries) = 1
  /\ result = [ok |-> TRUE, v |-> TRUE]
  /\ registries[call.name].entries = {}

\* validate_resource_location has answered for a loaded registry.
ValidatedLocation(is_tag) ==
  /\ call.op = "validate_resource_location"
  /\ call.is_tag = is_tag
  /\ call.name \in DOMAIN registries

\* The tag name of a tag reference: without its leading "#".
TagName(reference) ==
  IF reference[1] = "#" THEN Tail(reference) ELSE reference

\* C30: tags are not expanded into entries.  A load leaves contains(id)
\* true only for the keys of "entries", also for the ids a tag lists, and
\* validating a tag reference, with a leading "#" or without, checks only
\* that the tag name is a tag of the registry.
C30_TagsAreNotEntries ==
  /\ [][LoadStep =>
          \A id \in TagMembersOf(call'.json) :
            contains(registries[call.name], id)'
              => id \in KeysOf(call'.json, S("entries"))]_vars
  /\ [](ValidatedLocation(TRUE) =>
          /\ result.ok
          /\ result.v
               <=> TagName(call.resource_location)
                     \in DOMAIN registries[call.name].tags)

\* The tag tools, which lists stick, is a valid tag reference of a
\* registry in which stick is no entry.
C30_Witness ==
  /\ ValidatedLocation(TRUE)
  /\ call.resource_location = Tag("minecraft", "tools")
  /\ result = [ok |-> TRUE, v |-> TRUE]
  /\ ~contains(registries[call.name], ResourceLocation("minecraft", "stick"))

====
